---- MODULE Spec2Model ----
(***************************************************************************)
(* HoseinProxy panel: the fleet telemetry and enforcement loop             *)
(* (panel/app/services/monitor.py) together with the administrative        *)
(* handlers that write the same Proxy rows (panel/app/routes/proxy.py,     *)
(* panel/app/routes/main.py, panel/app/services/telegram_service.py).      *)
(*                                                                         *)
(* One monitor cycle is two steps: Reconcile (the per-node loop of         *)
(* update_docker_stats) and CheckLimits (_check_proxy_limits and the       *)
(* commit that follows it).  Administrative handlers are request handlers  *)
(* with their own database session; they run between cycles.               *)
(***************************************************************************)
EXTENDS Integers, Sequences, FiniteSets, Bags, TLC

\* ------------------------------------------------------------------ bounds
\* Largest byte counter a source reports (after the halving heuristic).
MaxBytes == 1
\* Wall clock: seconds between two observable instants, and how many of them pass.
TickStep == 30
MaxTicks == 2
MaxTime == MaxTicks * TickStep
\* Largest raw byte counter of a counter source (before the halving heuristic).
MaxRaw == MaxBytes + 1
\* Per-address connection threshold (setting alert_ip_conn_threshold).
PerIpThreshold == 2
\* How many monitor sleeps the wall clock of the connection tracker runs for.
NetTicks == 2
\* Most drop rules for one address the packet filter holds in one chain.
MaxRules == 2

\* --------------------------------------------------------- program values
\* Default cooldown of _maybe_emit_alert (seconds).
DefaultCooldown == 60
\* 1 / 1e-3: the floor of the elapsed time in the rate computation is 1 ms
EpsilonInverse == 1000
\* time.sleep(3) at the end of every cycle
CycleSleep == 3
\* seconds between two snapshot passes (line 253)
SnapshotInterval == 60
\* timedelta(days=30): the retention window (line 265)
RetentionDays == 30
Day == 24 * 60 * 60
Window == RetentionDays * Day

\* The fleet the enforcement loop is checked on (Proxy rows with a container).
Nodes == {1}
Bytes == 0..MaxBytes
\* quota_bytes values an administrator configures (0 = unlimited)
QuotaChoices == {0, MaxBytes}
\* expiry_date: <<>> is None, <<t>> a timestamp
ExpiryChoices == {<<>>, <<0>>}
Readings == {"raise"} \cup (Bytes \X Bytes)

VARIABLES
    now,          \* wall clock, seconds
    pc,           \* monitor thread: "idle" (sleeping) or "limits" (before _check_proxy_limits)
    proxy,        \* Proxy rows: [Nodes -> record]
    contUp,       \* container runtime: is the node's container running
    lastAlert,    \* _last_alert_by_key: a dict, DOMAIN = keys emitted so far
    alerts,       \* Alert rows, a bag
    rec,          \* observation: what Reconcile saw in the cycle in progress
    chk,          \* observation: what the last _check_proxy_limits call saw and did
    prior,        \* observation: outcome of the enforcer's last stop command for the
                  \* node ("none" after an administrative action on the node)
    thr,          \* threads inside _maybe_emit_alert: position, arguments, locals
    ipt,          \* packet-filter accounting: raw FORWARD byte counters per node
    dock,         \* container runtime: raw interface byte counters per node
    lastBytes,    \* _last_bytes: per node <<>> (no entry) or <<tx, rx, time>>
    rate,         \* upload_rate_bps / download_rate_bps columns per node
    cobs          \* observation: what the last counter reconciliation saw and did

ctrVars == <<ipt, dock, lastBytes, rate, cobs>>

VARIABLES
    conns,        \* kernel table: established connections <<node, address, remote port>>
    firstSeen,    \* _conn_first_seen: a dict from connection keys to epoch seconds
    live,         \* _live_connections: per node, the entries of the last cycle
    blocked,      \* BlockedIP rows: how many rows each address has
    rules,        \* packet filter: number of DROP rules per chain and address
    autoBlock,    \* setting auto_block_enabled = '1'
    nobs,         \* observation: the last tracking step and the one before it
    bobs          \* observation: the last auto-block step or firewall operation

netVars == <<conns, firstSeen, live, blocked, rules, autoBlock, nobs, bobs>>

VARIABLES
    stats,        \* ProxyStats rows, a set of [proxy_id, timestamp]
    lastSample,   \* last_stats_sample of the monitor thread
    pobs          \* observation: the store as the last pruning step found it

retVars == <<stats, lastSample, pobs>>

VARIABLES
    lpc,          \* update_docker_stats: the phase of the cycle the loop is about to run
    cont,         \* Proxy.container_id is set, per node of the fleet
    running,      \* Proxy.status = 'running', per node of the fleet
    stopSignal,   \* the panel was asked to shut down
    lobs          \* observation: what the cycle in progress did so far

loopVars == <<lpc, cont, running, stopSignal, lobs>>

VARIABLES
    tpc,          \* the lock region each thread is in (0: monitor, 1, 2: request threads)
    tagged,       \* per node, the records of _live_connections that carry a 'proxy_id' key
    robs          \* observation: what each request thread's reads of the live map returned

lockVars == <<tpc, tagged, robs>>

VARIABLES
    settings,     \* the Setting rows of the two alert thresholds, as stored
    load,         \* per node: active_connections, and the connection count of one address
    tobs          \* observation: what the last alert phase did

alertVars == <<settings, load, tobs>>

VARIABLES
    geoCache,       \* _geo_cache: address -> label
    geoCacheExpiry, \* _geo_cache_expiry: address -> time
    gobs            \* observation: the last call of _lookup_country

geoVars == <<geoCache, geoCacheExpiry, gobs>>

VARIABLES
    qobs            \* observation: per node, the counters at its last quota reset

quotaVars == <<qobs>>

VARIABLES
    eobs            \* observation: the calls of _maybe_emit_alert so far, in order

callVars == <<eobs>>

extVars == <<loopVars, lockVars, alertVars, geoVars, quotaVars, callVars, callVars>>

vars == <<now, pc, proxy, contUp, lastAlert, alerts, rec, chk, prior, thr, ctrVars, netVars,
          retVars, extVars>>

Max(a, b) == IF a >= b THEN a ELSE b

\* ---------------------------------------------------------------- helpers
\* a variant that measures every node from its baseline, without the clamp
_quota_usage_unclamped(p) ==
    (p.upload - p.quota_base_upload) + (p.download - p.quota_base_download)

\* helpers._quota_usage_bytes
_quota_usage_bytes(p) ==
    IF ~p.quota_start
    THEN p.upload + p.download
    ELSE Max(0, p.upload - p.quota_base_upload)
         + Max(0, p.download - p.quota_base_download)

\* variants of the status filter: none at all, and one that skips 'stopped' only
ExaminedAlways(p) == TRUE

ExaminedUnlessStopped(p) == p.status # "stopped"

\* _check_proxy_limits, line 49: only running nodes are examined
Examined(p) == p.status = "running"

\* a variant with the comparison of the expiry branch reversed
ExpiredReversed(p, t) == p.expiry_date # <<>> /\ t < p.expiry_date[1]

\* _check_proxy_limits, lines 56-58: the expiry branch
Expired(p, t) == p.expiry_date # <<>> /\ t > p.expiry_date[1]

\* a variant that stops only above the quota
QuotaExceededStrict(p) ==
    /\ p.quota_bytes > 0
    /\ _quota_usage_bytes(p) > p.quota_bytes

\* _check_proxy_limits, lines 61-65: the quota branch (an elif of the expiry branch)
QuotaExceeded(p) ==
    /\ p.quota_bytes > 0
    /\ _quota_usage_bytes(p) >= p.quota_bytes

\* _check_proxy_limits, lines 52-65: should_stop and reason
ShouldStop(p, t) == Expired(p, t) \/ QuotaExceeded(p)

StopReason(p, t) == IF Expired(p, t) THEN "Expired" ELSE "Quota Exceeded"

\* a variant whose cooldown window includes its end point
SuppressedInclusive(last, key, t, cooldown_seconds) ==
    key \in DOMAIN last /\ t - last[key] <= cooldown_seconds

\* _maybe_emit_alert, lines 28-30: the cooldown test made under _alerts_lock
Suppressed(last, key, t, cooldown_seconds) ==
    key \in DOMAIN last /\ t - last[key] < cooldown_seconds

\* _maybe_emit_alert, line 31
RecordEmit(last, key, t) ==
    [k \in DOMAIN last \cup {key} |-> IF k = key THEN t ELSE last[k]]

\* line 31 for each of the keys a check emitted (one key per node)
RECURSIVE RecordAll(_, _, _)
RecordAll(last, keys, t) ==
    IF keys = {} THEN last
    ELSE LET k == CHOOSE x \in keys : TRUE
         IN RecordAll(RecordEmit(last, k, t), keys \ {k}, t)

\* _maybe_emit_alert, lines 33-35: the Alert row
AlertRow(proxy_id, severity, message, t) ==
    [proxy_id |-> proxy_id, severity |-> severity, message |-> message, created_at |-> t]

\* _check_proxy_limits, line 74: the dedupe key f"autostop:{p.id}"
AutoStopKey(n) == <<"autostop", n>>

\* threads that may call _maybe_emit_alert, and the dedupe keys they use
\* (monitor.py lines 74 and 306: f"autostop:{p.id}", f"total:{p.id}")
Threads == {1, 2}
EmitKeys == {<<"autostop", n>> : n \in Nodes} \cup {<<"total", n>> : n \in Nodes}
IdleThread == [pc |-> "idle", key |-> <<>>, now |-> 0, result |-> "none", fwd |-> "none"]

\* a counter source that has counted nothing yet
NoTraffic == [tx |-> 0, rx |-> 0]
\* no counter reconciliation observed: acted - the last step was a reconciliation;
\* iptAns - the packet filter answered in it; rtAns - the container runtime
\* answered in it; ok - it got a reading; prev/last - the sample of the last
\* reading since the process started, before/after the step; wprev/wlast - the
\* counters written by the last reconciliation that got a reading, with no
\* explicit reset since, before/after the step
NoCobs == [acted |-> FALSE, iptAns |-> FALSE, rtAns |-> FALSE, ok |-> FALSE,
           prev |-> <<>>, last |-> <<>>, wprev |-> <<>>, wlast |-> <<>>]

\* the fleet the connection tracker and the auto-block policy are checked on
Fleet == {1, 2}
RemoteAddrs == {"a"}
RemotePorts == 1..PerIpThreshold
ConnKeys == Fleet \X RemoteAddrs \X RemotePorts
\* _apply_firewall_rule, lines 24-25 and 30-31: the chains that get the DROP rule
Chains == {"INPUT", "FORWARD"}
\* how the commands of one _apply_firewall_rule call end: avail - linux and
\* iptables found; check - `iptables -C` is able to answer; first, second - the
\* INPUT and the FORWARD command succeed
FwOutcomes == [avail : BOOLEAN, check : BOOLEAN, first : BOOLEAN, second : BOOLEAN]
\* no tracking step observed. acted: the last step was a tracking step; seen:
\* the connections it observed; at: its time.time(); prevFirst: the first-seen
\* records after the tracking step before it; prevAt: the time of that step
NoNobs == [acted |-> FALSE, seen |-> {}, at |-> 0, prevFirst |-> << >>, prevAt |-> 0,
           queried |-> TRUE, keptAll |-> TRUE]
\* no auto-block step observed. op: the last operation ("cycle", "block",
\* "unblock", "none"); seen: the connections the cycle observed; alert:
\* the outcome of its per-address alerts; was: the blocklist before the
\* operation; cmd: the addresses it ran rule commands for; rej: the addresses
\* whose BlockedIP row the store rejected
NoBobs == [op |-> "none", seen |-> {},
           alert |-> [x \in Fleet \X RemoteAddrs |-> "none"],
           was |-> [ip \in RemoteAddrs |-> 0], cmd |-> {}, rej |-> {}]

\* no pruning step observed. acted: the last step was a pruning step; cutoff:
\* its cutoff; stats, alerts: the rows in the store when its deletes ran
NoPobs == [acted |-> FALSE, cutoff |-> 0, stats |-> {}, alerts |-> EmptyBag]

\* no cycle observed. at: the time the cycle began; last: last_stats_sample
\* when it began; afterStop: it began with the
\* stop signal set; prevAborted: the cycle before it was left by an exception;
\* rec: the nodes whose reconciliation completed; recFail: those whose
\* reconciliation raised; chkd: the nodes the limit check looked at; stopFail:
\* those whose stop command raised; alerted: the nodes the threshold pass looked
\* at; due: the snapshot pass was due; pre: the rows in the store when the
\* snapshot pass began (<<>>: not begun); rows: the snapshot rows it added;
\* aborted: the phase an exception left the cycle from ("none": none did)
NoLobs == [at |-> 0, last |-> 0, afterStop |-> FALSE, prevAborted |-> FALSE,
           rec |-> {}, recFail |-> {}, chkd |-> {}, stopFail |-> {}, alerted |-> {},
           due |-> FALSE, pre |-> << >>, rows |-> {}, aborted |-> "none"]

\* the threads that take the four locks: the monitor thread and two request threads
Readers == {1, 2}
LockThreads == {0} \cup Readers
\* no read observed. res: <<>> or <<the records the last read of the live map
\* returned>>; changed: that read and the read before it, with no monitor cycle
\* in between, returned different records; torn: the read was made between
\* the monitor's clear and refill of the map
NoRobs == [res |-> << >>, changed |-> FALSE, torn |-> FALSE]

\* line 302: the default of alert_conn_threshold
DefaultConnThreshold == 300
\* line 303: the default of alert_ip_conn_threshold
DefaultIpConnThreshold == 20
\* a stored setting value: no row, the empty string, a decimal numeral, any
\* other text (the settings form stores the field as it was typed)
NoRow == <<"none", 0>>
EmptyText == <<"text", -1>>
OtherText == <<"text", -2>>
Numeral(n) == <<"int", n>>
StoredValues(default) ==
    {NoRow, EmptyText, OtherText, Numeral(default - 1), Numeral(default + 1)}
\* no alert phase observed. called: the keys _maybe_emit_alert was called with
NoTobs == [acted |-> FALSE, raised |-> FALSE, called |-> {}]

\* the calls of _maybe_emit_alert a behaviour of the cooldown check makes
MaxCalls == 4
\* helpers.py line 62: the time to live of a cached label, seconds
GeoTtl == 86400
\* addresses by what ipaddress.ip_address makes of them; "" is the empty string
\* and "x" a string that is no address
GeoAddrs == {<<"empty", "">>, <<"private", "10.0.0.1">>, <<"loopback", "127.0.0.1">>,
             <<"link_local", "169.254.0.1">>, <<"public", "8.8.8.8">>,
             <<"invalid", "x">>}
\* what running geoiplookup comes to: the tool is missing, the call raises
\* (also on its timeout), the output has no colon, or it names a country
GeoOutcomes == {<<"no_tool">>, <<"raise">>, <<"no_colon">>, <<"label", "IR">>, <<"label", "DE">>}
\* no call observed. acted: the last step was a call; ip, at: its argument and
\* time; result: what it returned ("raise": an exception left it); looked:
\* geoiplookup was reached; failed: the lookup gave no label; cache, expiry:
\* the two maps before the call; cachedAt: when each address was last cached;
\* was: cachedAt before the call
NoGobs == [acted |-> FALSE, ip |-> <<"empty", "">>, at |-> 0, result |-> "none",
           looked |-> FALSE, failed |-> FALSE, cache |-> << >>, expiry |-> << >>,
           cachedAt |-> << >>, was |-> << >>]

NoRec == [n \in Nodes |-> [ok |-> FALSE, base0 |-> FALSE]]
NoChk == [n \in Nodes |->
            [seen |-> "-", used |-> <<>>, stop |-> "none", log |-> FALSE, alert |-> "none",
             prior |-> "none"]]

\* ------------------------------------------------------------------- Init
\* Rows as the create handlers write them: running, counters 0, baseline 0/0.
NewProxy(q, qs, e) ==
    [status |-> "running", upload |-> 0, download |-> 0,
     quota_bytes |-> q, quota_start |-> qs,
     quota_base_upload |-> 0, quota_base_download |-> 0,
     expiry_date |-> e]

Init ==
    /\ now = 0
    /\ pc = "idle"
    /\ proxy \in [Nodes -> {NewProxy(0, FALSE, e) : e \in ExpiryChoices}]
    /\ contUp = [n \in Nodes |-> TRUE]
    /\ lastAlert = << >>
    /\ alerts = EmptyBag
    /\ rec = NoRec
    /\ chk = NoChk
    /\ prior = [n \in Nodes |-> "none"]
    /\ thr = [t \in Threads |-> IdleThread]
    /\ ipt = [n \in Nodes |-> NoTraffic]
    /\ dock = [n \in Nodes |-> NoTraffic]
    /\ lastBytes = [n \in Nodes |-> <<>>]
    /\ rate = [n \in Nodes |-> [up |-> 0, down |-> 0]]
    /\ cobs = [n \in Nodes |-> NoCobs]
    /\ conns = {}
    /\ firstSeen = << >>
    /\ live = [n \in Fleet |-> {}]
    /\ blocked = [ip \in RemoteAddrs |-> 0]
    /\ rules = [c \in Chains |-> [ip \in RemoteAddrs |-> 0]]
    /\ autoBlock = FALSE
    /\ nobs = NoNobs
    /\ bobs = NoBobs
    /\ stats = {}
    /\ lastSample = now - 2 * SnapshotInterval
    /\ pobs = NoPobs
    /\ lpc = "top"
    /\ cont = [n \in Fleet |-> TRUE]
    /\ running = [n \in Fleet |-> TRUE]
    /\ stopSignal = FALSE
    /\ lobs = NoLobs
    /\ tpc = [t \in LockThreads |-> "idle"]
    /\ tagged = [n \in Fleet |-> {}]
    /\ robs = [r \in Readers |-> NoRobs]
    /\ settings = [conn |-> NoRow, ip |-> NoRow]
    /\ load = [n \in Fleet |-> [active |-> DefaultConnThreshold, ip |-> DefaultIpConnThreshold]]
    /\ tobs = NoTobs
    /\ geoCache = << >>
    /\ geoCacheExpiry = << >>
    /\ gobs = NoGobs
    /\ qobs = [n \in Nodes |-> << >>]
    /\ eobs = << >>

\* ---------------------------------------------------------------- monitor
\* a variant of the per-node step that takes the baseline again while one of
\* its counters is 0
ReconcileNodeRebasing(p, r) ==
    IF r = "raise" THEN p
    ELSE LET tx == r[1]
             rx == r[2]
             q  == [p EXCEPT !.download = rx, !.upload = tx]
         IN IF q.quota_start /\ (q.quota_base_upload = 0 \/ q.quota_base_download = 0)
            THEN [q EXCEPT !.quota_base_upload = tx, !.quota_base_download = rx]
            ELSE q

\* a variant of the per-node step that also marks an answering node 'running'
ReconcileNodeReviving(p, r) ==
    IF r = "raise" THEN p
    ELSE [p EXCEPT !.download = r[2], !.upload = r[1], !.status = "running"]

\* update_docker_stats, lines 134-246, for one node: r is what the counter
\* sources answer ("raise": the per-node try block is left by an exception).
ReconcileNode(p, r) ==
    IF r = "raise" THEN p
    ELSE LET tx == r[1]
             rx == r[2]
             q  == [p EXCEPT !.download = rx, !.upload = tx]
         IN IF q.quota_start /\ q.quota_base_upload = 0 /\ q.quota_base_download = 0
            THEN [q EXCEPT !.quota_base_upload = tx, !.quota_base_download = rx]
            ELSE q

\* update_docker_stats, lines 126-246: the per-node loop of one cycle
Reconcile ==
    /\ pc = "idle"
    /\ \E r \in [Nodes -> Readings] :
         /\ proxy' = [n \in Nodes |-> ReconcileNode(proxy[n], r[n])]
         /\ rec' = [n \in Nodes |->
                      [ok |-> r[n] # "raise",
                       base0 |-> /\ proxy[n].quota_start
                                 /\ proxy[n].quota_base_upload = 0
                                 /\ proxy[n].quota_base_download = 0]]
    /\ pc' = "limits"
    /\ chk' = NoChk
    /\ UNCHANGED <<extVars, retVars, netVars, ctrVars, thr, now, contUp, lastAlert, alerts, prior>>

\* _maybe_emit_alert called from the monitor thread, whole call: the outcome
\* for the alert of key `key` at time t, given whether the store accepts the row.
\*   "suppressed": line 30;  "persisted": lines 31-35;  "lost": line 31, then the
\*   add/commit raised and was rolled back (lines 40-44)
EmitOutcome(last, key, t, cooldown_seconds, storeOk) ==
    IF Suppressed(last, key, t, cooldown_seconds) THEN "suppressed"
    ELSE IF storeOk THEN "persisted" ELSE "lost"

\* _check_proxy_limits for one node, lines 49-76: what the call does for it.
\* stopOk: containers.get(...).stop() returns (else it raises);
\* alertOk: the store accepts the Alert row.
\* used: the value of `used` at line 62, <<>> when that line is not reached.
CheckNode(p, n, t, last, stopOk, alertOk) ==
    LET used == IF Examined(p) /\ ~Expired(p, t) /\ p.quota_bytes > 0
                THEN <<_quota_usage_bytes(p)>> ELSE <<>>
    IN IF ~Examined(p) \/ ~ShouldStop(p, t)
       THEN [seen |-> p.status, used |-> used, stop |-> "none", log |-> FALSE,
             alert |-> "none"]
       ELSE IF ~stopOk
       THEN [seen |-> p.status, used |-> used, stop |-> "failed", log |-> FALSE,
             alert |-> "none"]
       ELSE [seen |-> p.status, used |-> used, stop |-> "ok", log |-> TRUE,
             alert |-> EmitOutcome(last, AutoStopKey(n), t, DefaultCooldown, alertOk)]

\* a variant that marks the node stopped whenever a stop was attempted
StatusAfterAttempt(p, c) == IF c.stop # "none" THEN "stopped" ELSE p.status

\* _check_proxy_limits line 72
StatusAfter(p, c) == IF c.stop = "ok" THEN "stopped" ELSE p.status

\* update_docker_stats lines 248-250: _check_proxy_limits(proxies), commit
CheckLimits ==
    /\ pc = "limits"
    /\ \E stopOk \in [Nodes -> BOOLEAN], alertOk \in [Nodes -> BOOLEAN] :
         LET c == [n \in Nodes |->
                     CheckNode(proxy[n], n, now, lastAlert, stopOk[n], alertOk[n])]
             emitted == {n \in Nodes : c[n].alert \in {"persisted", "lost"}}
             rows == {AlertRow(n, "warning", <<"stopped", StopReason(proxy[n], now)>>, now) :
                        n \in {m \in Nodes : c[m].alert = "persisted"}}
         IN /\ chk' = [n \in Nodes |->
                         [seen |-> c[n].seen, used |-> c[n].used, stop |-> c[n].stop,
                          log |-> c[n].log, alert |-> c[n].alert, prior |-> prior[n]]]
            /\ proxy' = [n \in Nodes |-> [proxy[n] EXCEPT !.status = StatusAfter(proxy[n], c[n])]]
            /\ contUp' = [n \in Nodes |-> IF c[n].stop = "ok" THEN FALSE ELSE contUp[n]]
            /\ lastAlert' = RecordAll(lastAlert, {AutoStopKey(n) : n \in emitted}, now)
            /\ alerts' = alerts (+) SetToBag(rows)
            /\ prior' = [n \in Nodes |-> IF c[n].stop # "none" THEN c[n].stop ELSE prior[n]]
    /\ pc' = "idle"
    /\ UNCHANGED <<extVars, retVars, netVars, ctrVars, thr, now, rec>>

\* the clock advances
Tick ==
    /\ now + TickStep <= MaxTime
    /\ now' = now + TickStep
    /\ rec' = IF pc = "limits" THEN rec ELSE NoRec
    /\ chk' = NoChk
    /\ UNCHANGED <<extVars, retVars, netVars, ctrVars, thr, pc, proxy, contUp, lastAlert, alerts, prior>>

\* --------------------------------------------------- administrative layer
\* routes/proxy.py start(): container.start(), status = "running"
AdminStart(n) ==
    /\ pc = "idle"
    /\ proxy[n].status # "running"
    /\ contUp' = [contUp EXCEPT ![n] = TRUE]
    /\ proxy' = [proxy EXCEPT ![n].status = "running"]
    /\ prior' = [prior EXCEPT ![n] = "none"]
    /\ rec' = NoRec
    /\ chk' = NoChk
    /\ UNCHANGED <<extVars, retVars, netVars, ctrVars, thr, now, pc, lastAlert, alerts>>

\* routes/proxy.py stop(): container.stop(), status = "stopped"
AdminStop(n) ==
    /\ pc = "idle"
    /\ proxy[n].status = "running"
    /\ contUp' = [contUp EXCEPT ![n] = FALSE]
    /\ proxy' = [proxy EXCEPT ![n].status = "stopped"]
    /\ prior' = [prior EXCEPT ![n] = "none"]
    /\ rec' = NoRec
    /\ chk' = NoChk
    /\ UNCHANGED <<extVars, retVars, netVars, ctrVars, thr, now, pc, lastAlert, alerts>>

\* routes/proxy.py reset_quota(), lines 413-415: the row after the reset
ResetQuotaRow(p) ==
    [p EXCEPT !.quota_start = TRUE,
              !.quota_base_upload = p.upload,
              !.quota_base_download = p.download]

\* routes/proxy.py reset_quota(): the window restarts at the current counters
AdminResetQuota(n) ==
    /\ pc = "idle"
    /\ proxy' = [proxy EXCEPT ![n] = ResetQuotaRow(proxy[n])]
    /\ prior' = [prior EXCEPT ![n] = IF prior[n] = "failed" THEN "none" ELSE prior[n]]
    /\ rec' = NoRec
    /\ chk' = NoChk
    /\ UNCHANGED <<extVars, retVars, netVars, ctrVars, thr, now, pc, contUp, lastAlert, alerts>>

\* routes/proxy.py update(), lines 244-252: the quota field of the edit form
WebSetQuota(n, q) ==
    /\ pc = "idle"
    /\ q # proxy[n].quota_bytes
    /\ proxy' = [proxy EXCEPT ![n] =
                   IF q > 0 /\ ~proxy[n].quota_start
                   THEN [proxy[n] EXCEPT !.quota_bytes = q, !.quota_start = TRUE,
                                         !.quota_base_upload = proxy[n].upload,
                                         !.quota_base_download = proxy[n].download]
                   ELSE IF q = 0
                   THEN [proxy[n] EXCEPT !.quota_bytes = q, !.quota_start = FALSE]
                   ELSE [proxy[n] EXCEPT !.quota_bytes = q]]
    /\ prior' = [prior EXCEPT ![n] = IF prior[n] = "failed" THEN "none" ELSE prior[n]]
    /\ rec' = NoRec
    /\ chk' = NoChk
    /\ UNCHANGED <<extVars, retVars, netVars, ctrVars, thr, now, pc, contUp, lastAlert, alerts>>

\* telegram_service.py, step 'edit_proxy_quota', lines 612-620: quota_bytes alone
BotSetQuota(n, q) ==
    /\ pc = "idle"
    /\ q # proxy[n].quota_bytes
    /\ proxy' = [proxy EXCEPT ![n].quota_bytes = q]
    /\ prior' = [prior EXCEPT ![n] = IF prior[n] = "failed" THEN "none" ELSE prior[n]]
    /\ rec' = NoRec
    /\ chk' = NoChk
    /\ UNCHANGED <<extVars, retVars, netVars, ctrVars, thr, now, pc, contUp, lastAlert, alerts>>

\* routes/main.py dashboard(): "Sync status" copies the runtime's state to the rows
DashboardSync ==
    /\ pc = "idle"
    /\ proxy' = [n \in Nodes |->
                   [proxy[n] EXCEPT !.status = IF contUp[n] THEN "running" ELSE "exited"]]
    /\ proxy' # proxy
    /\ rec' = NoRec
    /\ chk' = NoChk
    /\ UNCHANGED <<extVars, retVars, netVars, ctrVars, thr, now, pc, contUp, lastAlert, alerts, prior>>

Admin ==
    \E n \in Nodes :
        \/ AdminStart(n)
        \/ AdminStop(n)
        \/ AdminResetQuota(n)
        \/ \E q \in QuotaChoices : WebSetQuota(n, q) \/ BotSetQuota(n, q)

Next == Reconcile \/ CheckLimits \/ Tick \/ Admin \/ DashboardSync

Spec == Init /\ [][Next]_vars

\* ------------------------------------------- _maybe_emit_alert, step by step
\* line 26: the call reads the clock before it takes _alerts_lock
EmitEnter(t, key) ==
    /\ thr[t].pc = "idle"
    /\ thr[t].result = "none"
    /\ thr' = [thr EXCEPT ![t] = [pc |-> "entered", key |-> key, now |-> now,
                                  result |-> "none", fwd |-> "none"]]
    /\ UNCHANGED <<extVars, retVars, now, pc, proxy, contUp, lastAlert, alerts, rec, chk, prior, ctrVars, netVars>>

\* lines 27-31, under _alerts_lock: test the cooldown, record the emission
EmitCheckAndSet(t) ==
    /\ thr[t].pc = "entered"
    /\ IF Suppressed(lastAlert, thr[t].key, thr[t].now, DefaultCooldown)
       THEN /\ thr' = [thr EXCEPT ![t].pc = "idle", ![t].result = "suppressed"]
            /\ UNCHANGED lastAlert
       ELSE /\ thr' = [thr EXCEPT ![t].pc = "persist"]
            /\ lastAlert' = RecordEmit(lastAlert, thr[t].key, thr[t].now)
    /\ UNCHANGED <<extVars, retVars, now, pc, proxy, contUp, alerts, rec, chk, prior, ctrVars, netVars>>

\* a variant in which a failed forward takes the committed row back
AfterForwardUndone(rows, row, fwdOk) ==
    IF fwdOk THEN rows (+) SetToBag({row}) ELSE rows

\* lines 35-44: the Alert rows after the commit of line 35 and the forward of
\* line 38.  send_telegram_alert catches what its request raises (lines 41-51
\* of telegram_service.py); an exception it let through would reach line 40,
\* whose rollback finds nothing uncommitted.
AfterForward(rows, row, fwdOk) == rows (+) SetToBag({row})

\* lines 32-44, outside the lock: add and commit the Alert row (created_at is
\* the column default, the clock at the insert), then forward it to the
\* notification channel; a failure of the store is rolled back
EmitPersist(t) ==
    /\ thr[t].pc = "persist"
    /\ \E storeOk \in BOOLEAN, fwdOk \in BOOLEAN :
         IF storeOk
         THEN /\ alerts' = AfterForward(alerts,
                                        AlertRow(thr[t].key[2], "warning", thr[t].key, now),
                                        fwdOk)
              /\ thr' = [thr EXCEPT ![t].pc = "idle", ![t].result = "persisted",
                                    ![t].fwd = IF fwdOk THEN "sent" ELSE "failed"]
         ELSE /\ alerts' = alerts
              /\ thr' = [thr EXCEPT ![t].pc = "idle", ![t].result = "lost"]
    /\ UNCHANGED <<extVars, retVars, now, pc, proxy, contUp, lastAlert, rec, chk, prior, ctrVars, netVars>>

\* the clock, while threads are inside _maybe_emit_alert
EmitTick ==
    /\ now + TickStep <= MaxTime
    /\ now' = now + TickStep
    /\ UNCHANGED <<extVars, retVars, pc, proxy, contUp, lastAlert, alerts, rec, chk, prior, thr, ctrVars, netVars>>

InitEmit ==
    /\ Init
    /\ \A n \in Nodes : proxy[n].expiry_date = <<>>

NextEmit ==
    \/ \E t \in Threads, key \in EmitKeys : EmitEnter(t, key)
    \/ \E t \in Threads : EmitCheckAndSet(t)
    \/ \E t \in Threads : EmitPersist(t)
    \/ EmitTick

\* two threads, each making one call of _maybe_emit_alert
SpecEmit == InitEmit /\ [][NextEmit]_vars

\* ---------------------------------------- counter sources and rate estimate
\* variants of the fallback chain: the container runtime is asked first
ReadCountersRuntimeFirst(i, d, getOk, iptOk, statsOk) ==
    IF ~getOk THEN "raise"
    ELSE IF statsOk THEN <<d.tx \div 2, d.rx \div 2>>
    ELSE IF iptOk /\ (i.rx > 0 \/ i.tx > 0) THEN <<i.tx \div 2, i.rx \div 2>>
    ELSE "raise"

\* total failure reads as zero counters
ReadCountersZeroOnFailure(i, d, getOk, iptOk, statsOk) ==
    IF getOk /\ iptOk /\ (i.rx > 0 \/ i.tx > 0) THEN <<i.tx \div 2, i.rx \div 2>>
    ELSE IF getOk /\ statsOk THEN <<d.tx \div 2, d.rx \div 2>>
    ELSE <<0, 0>>

\* update_docker_stats, lines 136-209: the counters of one node in one cycle.
\* getOk: containers.get() returns; iptOk: the iptables listing is obtained and
\* the container has an address; statsOk: container.stats() returns.
\* The packet filter answers only when one of its counters is positive (line 177).
ReadCounters(i, d, getOk, iptOk, statsOk) ==
    IF ~getOk THEN "raise"
    ELSE IF iptOk /\ (i.rx > 0 \/ i.tx > 0) THEN <<i.tx \div 2, i.rx \div 2>>
    ELSE IF statsOk THEN <<d.tx \div 2, d.rx \div 2>>
    ELSE "raise"

\* a variant of the rate without the clamp of the delta
RateUnclamped(delta, elapsed) ==
    IF elapsed >= 1 THEN IF delta >= 0 THEN delta \div elapsed
                         ELSE 0 - ((0 - delta) \div elapsed)
    ELSE delta * EpsilonInverse

\* lines 219-221: int(max(0, delta) / max(1e-3, elapsed)), elapsed in whole seconds
Rate(delta, elapsed) ==
    IF elapsed >= 1 THEN Max(0, delta) \div elapsed
    ELSE Max(0, delta) * EpsilonInverse

\* a variant that treats a missing sample as a zero sample taken at time 0
RatesFromZero(prev, tx, rx, t) ==
    IF prev = <<>> THEN [up |-> Rate(tx, t), down |-> Rate(rx, t)]
    ELSE [up |-> Rate(tx - prev[1], t - prev[3]),
          down |-> Rate(rx - prev[2], t - prev[3])]

\* lines 217-224: the two rates from the previous sample (<<>>: none) and the
\* current one
Rates(prev, tx, rx, t) ==
    IF prev = <<>> THEN [up |-> 0, down |-> 0]
    ELSE [up |-> Rate(tx - prev[1], t - prev[3]),
          down |-> Rate(rx - prev[2], t - prev[3])]

\* update_docker_stats, lines 134-246 for every node: counters, rates, baseline
ReconcileCounters ==
    /\ \E getOk \in [Nodes -> BOOLEAN], iptOk \in [Nodes -> BOOLEAN],
          statsOk \in [Nodes -> BOOLEAN] :
         LET r == [n \in Nodes |->
                     ReadCounters(ipt[n], dock[n], getOk[n], iptOk[n], statsOk[n])]
         IN /\ proxy' = [n \in Nodes |-> ReconcileNode(proxy[n], r[n])]
            /\ lastBytes' = [n \in Nodes |->
                               IF r[n] = "raise" THEN lastBytes[n]
                               ELSE <<r[n][1], r[n][2], now>>]
            /\ rate' = [n \in Nodes |->
                          IF r[n] = "raise" THEN rate[n]
                          ELSE Rates(lastBytes[n], r[n][1], r[n][2], now)]
            /\ cobs' = [n \in Nodes |->
                          [acted |-> TRUE,
                           iptAns |-> iptOk[n] /\ (ipt[n].rx > 0 \/ ipt[n].tx > 0),
                           rtAns |-> getOk[n] /\ statsOk[n],
                           ok |-> r[n] # "raise",
                           prev |-> cobs[n].last,
                           last |-> IF r[n] = "raise" THEN cobs[n].last
                                    ELSE <<r[n][1], r[n][2], now>>,
                           wprev |-> cobs[n].wlast,
                           wlast |-> IF r[n] = "raise" THEN cobs[n].wlast
                                     ELSE <<r[n][1], r[n][2]>>]]
    /\ UNCHANGED <<extVars, retVars, now, pc, contUp, lastAlert, alerts, rec, chk, prior, thr, netVars, ipt, dock>>

Settled ==
    [n \in Nodes |-> [cobs[n] EXCEPT !.acted = FALSE, !.iptAns = FALSE, !.rtAns = FALSE,
                                     !.ok = FALSE, !.prev = <<>>, !.wprev = <<>>]]

\* traffic: one raw counter of one source of one node grows
Traffic(n) ==
    /\ \/ ipt[n].tx < MaxRaw /\ ipt' = [ipt EXCEPT ![n].tx = @ + 1] /\ dock' = dock
       \/ ipt[n].rx < MaxRaw /\ ipt' = [ipt EXCEPT ![n].rx = @ + 1] /\ dock' = dock
       \/ dock[n].tx < MaxRaw /\ dock' = [dock EXCEPT ![n].tx = @ + 1] /\ ipt' = ipt
       \/ dock[n].rx < MaxRaw /\ dock' = [dock EXCEPT ![n].rx = @ + 1] /\ ipt' = ipt
    /\ cobs' = Settled
    /\ UNCHANGED <<extVars, retVars, now, pc, proxy, contUp, lastAlert, alerts, rec, chk, prior, thr, netVars,
                   lastBytes, rate>>

\* time.time(): the wall clock moves on by a second, or is set back by one
WallClock ==
    /\ \/ now < MaxTicks /\ now' = now + 1
       \/ now > 0 /\ now' = now - 1
    /\ cobs' = Settled
    /\ UNCHANGED <<extVars, retVars, pc, proxy, contUp, lastAlert, alerts, rec, chk, prior, thr, netVars,
                   ipt, dock, lastBytes, rate>>

\* telegram_service.py, action 'reset', lines 1053-1056: the explicit counter reset
BotResetCounters(n) ==
    /\ proxy[n].upload + proxy[n].download > 0
    /\ proxy' = [proxy EXCEPT ![n].upload = 0, ![n].download = 0]
    /\ cobs' = [Settled EXCEPT ![n].wlast = <<>>]
    /\ UNCHANGED <<extVars, retVars, now, pc, contUp, lastAlert, alerts, rec, chk, prior, thr, netVars,
                   ipt, dock, lastBytes, rate>>

\* the panel process restarts: _last_bytes (monitor.py line 21) is empty again
ProcessRestart ==
    /\ \E n \in Nodes : lastBytes[n] # <<>>
    /\ lastBytes' = [n \in Nodes |-> <<>>]
    /\ cobs' = [n \in Nodes |-> [Settled[n] EXCEPT !.last = <<>>]]
    /\ UNCHANGED <<extVars, retVars, now, pc, proxy, contUp, lastAlert, alerts, rec, chk, prior, thr, netVars,
                   ipt, dock, rate>>

InitCounters ==
    /\ Init
    /\ \A n \in Nodes : proxy[n].expiry_date = <<>>

NextCounters ==
    \/ ReconcileCounters
    \/ \E n \in Nodes : Traffic(n)
    \/ WallClock
    \/ \E n \in Nodes : BotResetCounters(n)
    \/ ProcessRestart

\* the counter reconciliation and rate estimate of the cycle, with its sources
SpecCounters == InitCounters /\ [][NextCounters]_vars

\* ------------------------------- connection tracker, auto-block, firewall
\* a variant that counts an address over the whole fleet
IpCountFleet(obs, n, ip) == Cardinality({k \in obs : k[2] = ip})

\* update_docker_stats, lines 272-287: ip_counts[(p.id, ip)] of one cycle
IpCount(obs, n, ip) == Cardinality({k \in obs : k[1] = n /\ k[2] = ip})

\* a variant of the threshold test that needs more than the threshold
OverThreshold(cnt) == cnt > PerIpThreshold

\* line 310: cnt >= alert_per_ip_threshold
AtThreshold(cnt) == cnt >= PerIpThreshold

\* line 311: the dedupe key f"ip:{p.id}:{ip}"
IpKey(n, ip) == <<"ip", n, ip>>

\* lines 283-286: a connection's first-seen record after the cycle observed it;
\* `if not first_seen` also takes a record of 0 for a missing one
FirstSeenOf(fs, k, t) == IF k \in DOMAIN fs /\ fs[k] # 0 THEN fs[k] ELSE t

\* firewall_service._apply_firewall_rule, lines 6-35: the rules after one call.
\* Only the INPUT chain is asked whether the rule exists (line 18); a command
\* that fails raises, which ends the call (lines 32-35).
_apply_firewall_rule(rs, ip, action, o) ==
    IF ~o.avail THEN rs
    ELSE LET rule_exists == o.check /\ rs["INPUT"][ip] > 0
         IN IF action = "block"
            THEN IF rule_exists \/ ~o.first THEN rs
                 ELSE IF ~o.second THEN [rs EXCEPT !["INPUT"][ip] = @ + 1]
                 ELSE [rs EXCEPT !["INPUT"][ip] = @ + 1, !["FORWARD"][ip] = @ + 1]
            ELSE IF ~rule_exists \/ ~o.first THEN rs
                 ELSE IF ~o.second \/ rs["FORWARD"][ip] = 0
                 THEN [rs EXCEPT !["INPUT"][ip] = @ - 1]
                 ELSE [rs EXCEPT !["INPUT"][ip] = @ - 1, !["FORWARD"][ip] = @ - 1]

RulesBounded(rs) == \A c \in Chains, ip \in RemoteAddrs : rs[c][ip] <= MaxRules

\* the connections a cycle sees: psutil.net_connections (lines 129-132) answers
\* with the kernel table, or fails and the cycle goes on with an empty list
Observed(connsOk) == IF connsOk THEN conns ELSE {}

\* a variant that never deletes a first-seen record
KeepAllFirstSeen(m, cur) == m

\* lines 298-300: the first-seen records of the keys not observed are deleted
PruneFirstSeen(m, cur) == [k \in DOMAIN m \cap cur |-> m[k]]

\* update_docker_stats, lines 270-300 of one cycle, then the sleep of line 330
TrackCycle ==
    /\ now + CycleSleep <= (NetTicks + 1) * CycleSleep
    /\ \E connsOk \in BOOLEAN :
         LET obs == Observed(connsOk)
             fs  == [k \in DOMAIN firstSeen \cup obs |->
                       IF k \in obs THEN FirstSeenOf(firstSeen, k, now) ELSE firstSeen[k]]
             nl  == [n \in Fleet |->
                       {[ip |-> k[2], remote_port |-> k[3],
                         connected_for_seconds |-> now - fs[k]] :
                            k \in {x \in obs : x[1] = n}}]
         IN /\ firstSeen' = PruneFirstSeen(fs, obs)
            /\ live' = nl
            /\ nobs' = [acted |-> TRUE, seen |-> obs, at |-> now,
                        prevFirst |-> firstSeen, prevAt |-> nobs.at,
                        queried |-> connsOk,
                        keptAll |-> (nl = live /\ PruneFirstSeen(fs, obs) = firstSeen)]
    /\ now' = now + CycleSleep
    /\ UNCHANGED <<extVars, retVars, pc, proxy, contUp, lastAlert, alerts, rec, chk, prior, thr, ctrVars,
                   conns, blocked, rules, autoBlock, bobs>>

\* a remote endpoint connects to, or disconnects from, a node's port
ConnChange(k) ==
    /\ conns' = IF k \in conns THEN conns \ {k} ELSE conns \cup {k}
    /\ nobs' = [NoNobs EXCEPT !.at = nobs.at]
    /\ bobs' = NoBobs
    /\ UNCHANGED <<extVars, retVars, now, pc, proxy, contUp, lastAlert, alerts, rec, chk, prior, thr,
                   ctrVars, firstSeen, live, blocked, rules, autoBlock>>

\* time.time(): the wall clock is set back by one sleep interval
ClockSetBack ==
    /\ now - CycleSleep >= CycleSleep
    /\ now' = now - CycleSleep
    /\ nobs' = [NoNobs EXCEPT !.at = nobs.at]
    /\ UNCHANGED <<extVars, retVars, pc, proxy, contUp, lastAlert, alerts, rec, chk, prior, thr,
                   ctrVars, conns, firstSeen, live, blocked, rules, autoBlock, bobs>>

\* update_docker_stats, lines 302-325 of one cycle, on the counts of lines 272-287.
\* connsOk: as in TrackCycle; alertOk: the store accepts the Alert row; rowOk: the
\* store accepts the BlockedIP row (a failure raises into line 324, before the
\* rule commands); fwo: how the rule commands of the cycle end.
AutoBlockCycle ==
    /\ \E connsOk \in BOOLEAN :
         LET obs == Observed(connsOk)
             cnt == [x \in Fleet \X RemoteAddrs |-> IpCount(obs, x[1], x[2])]
             hit == {x \in Fleet \X RemoteAddrs : cnt[x] > 0 /\ AtThreshold(cnt[x])}
             new == IF autoBlock
                    THEN {ip \in RemoteAddrs :
                            blocked[ip] = 0 /\ \E n \in Fleet : <<n, ip>> \in hit}
                    ELSE {}
         IN \E alertOk \in [hit -> BOOLEAN], rowOk \in [new -> BOOLEAN] :
            \E fwo \in [{ip \in new : rowOk[ip]} -> FwOutcomes] :
              LET added == DOMAIN fwo
                  out == [x \in Fleet \X RemoteAddrs |->
                            IF x \in hit
                            THEN EmitOutcome(lastAlert, IpKey(x[1], x[2]), now,
                                             DefaultCooldown, alertOk[x])
                            ELSE "none"]
              IN /\ lastAlert' = RecordAll(lastAlert,
                                           {IpKey(x[1], x[2]) :
                                              x \in {y \in hit : out[y] # "suppressed"}},
                                           now)
                 /\ alerts' = alerts (+) SetToBag(
                                 {AlertRow(x[1], "warning", IpKey(x[1], x[2]), now) :
                                    x \in {y \in hit : out[y] = "persisted"}})
                 /\ blocked' = [ip \in RemoteAddrs |->
                                  IF ip \in added THEN blocked[ip] + 1 ELSE blocked[ip]]
                 /\ rules' = [c \in Chains |-> [ip \in RemoteAddrs |->
                                 IF ip \in added
                                 THEN _apply_firewall_rule(rules, ip, "block", fwo[ip])[c][ip]
                                 ELSE rules[c][ip]]]
                 /\ bobs' = [op |-> "cycle", seen |-> obs, alert |-> out,
                             was |-> blocked, cmd |-> added, rej |-> new \ added]
    /\ RulesBounded(rules')
    /\ UNCHANGED <<extVars, retVars, now, pc, proxy, contUp, rec, chk, prior, thr, ctrVars, conns,
                   firstSeen, live, autoBlock, nobs>>

\* a cooldown's worth of cycles goes by
LongWait ==
    /\ now < DefaultCooldown
    /\ now' = now + DefaultCooldown
    /\ bobs' = NoBobs
    /\ UNCHANGED <<extVars, retVars, pc, proxy, contUp, lastAlert, alerts, rec, chk, prior, thr,
                   ctrVars, conns, firstSeen, live, blocked, rules, autoBlock, nobs>>

\* routes/settings.py line 26: the auto_block_enabled switch
SetAutoBlock ==
    /\ autoBlock' = ~autoBlock
    /\ bobs' = NoBobs
    /\ UNCHANGED <<extVars, retVars, now, pc, proxy, contUp, lastAlert, alerts, rec, chk, prior, thr,
                   ctrVars, conns, firstSeen, live, blocked, rules, nobs>>

\* routes/firewall.py add(): a manual block
FirewallAdd(ip) ==
    /\ blocked[ip] = 0
    /\ \E o \in FwOutcomes :
         /\ rules' = _apply_firewall_rule(rules, ip, "block", o)
         /\ RulesBounded(rules')
    /\ blocked' = [blocked EXCEPT ![ip] = @ + 1]
    /\ bobs' = [NoBobs EXCEPT !.op = "block", !.was = blocked, !.cmd = {ip}]
    /\ UNCHANGED <<extVars, retVars, now, pc, proxy, contUp, lastAlert, alerts, rec, chk, prior, thr,
                   ctrVars, conns, firstSeen, live, autoBlock, nobs>>

\* routes/firewall.py delete(): the user-triggered unblock
FirewallDelete(ip) ==
    /\ blocked[ip] > 0
    /\ \E o \in FwOutcomes : rules' = _apply_firewall_rule(rules, ip, "unblock", o)
    /\ blocked' = [blocked EXCEPT ![ip] = @ - 1]
    /\ bobs' = [NoBobs EXCEPT !.op = "unblock", !.was = blocked, !.cmd = {ip}]
    /\ UNCHANGED <<extVars, retVars, now, pc, proxy, contUp, lastAlert, alerts, rec, chk, prior, thr,
                   ctrVars, conns, firstSeen, live, autoBlock, nobs>>

\* the tracker starts one sleep interval after the epoch: epoch seconds are positive
InitNet ==
    /\ now = CycleSleep
    /\ pc = "idle"
    /\ proxy = [n \in Nodes |-> NewProxy(0, FALSE, <<>>)]
    /\ contUp = [n \in Nodes |-> TRUE]
    /\ lastAlert = << >>
    /\ alerts = EmptyBag
    /\ rec = NoRec
    /\ chk = NoChk
    /\ prior = [n \in Nodes |-> "none"]
    /\ thr = [t \in Threads |-> IdleThread]
    /\ ipt = [n \in Nodes |-> NoTraffic]
    /\ dock = [n \in Nodes |-> NoTraffic]
    /\ lastBytes = [n \in Nodes |-> <<>>]
    /\ rate = [n \in Nodes |-> [up |-> 0, down |-> 0]]
    /\ cobs = [n \in Nodes |-> NoCobs]
    /\ conns = {}
    /\ firstSeen = << >>
    /\ live = [n \in Fleet |-> {}]
    /\ blocked = [ip \in RemoteAddrs |-> 0]
    /\ rules = [c \in Chains |-> [ip \in RemoteAddrs |-> 0]]
    /\ autoBlock = FALSE
    /\ nobs = NoNobs
    /\ bobs = NoBobs
    /\ stats = {}
    /\ lastSample = now - 2 * SnapshotInterval
    /\ pobs = NoPobs
    /\ lpc = "top"
    /\ cont = [n \in Fleet |-> TRUE]
    /\ running = [n \in Fleet |-> TRUE]
    /\ stopSignal = FALSE
    /\ lobs = NoLobs
    /\ tpc = [t \in LockThreads |-> "idle"]
    /\ tagged = [n \in Fleet |-> {}]
    /\ robs = [r \in Readers |-> NoRobs]
    /\ settings = [conn |-> NoRow, ip |-> NoRow]
    /\ load = [n \in Fleet |-> [active |-> DefaultConnThreshold, ip |-> DefaultIpConnThreshold]]
    /\ tobs = NoTobs
    /\ geoCache = << >>
    /\ geoCacheExpiry = << >>
    /\ gobs = NoGobs
    /\ qobs = [n \in Nodes |-> << >>]
    /\ eobs = << >>

NextTrack ==
    \/ TrackCycle
    \/ \E k \in ConnKeys : ConnChange(k)
    \/ ClockSetBack

\* the connection tracking part of the cycle, with connections coming and going
SpecTrack == InitNet /\ [][NextTrack]_vars

NextBlock ==
    \/ AutoBlockCycle
    \/ \E k \in ConnKeys : ConnChange(k)
    \/ LongWait
    \/ SetAutoBlock
    \/ \E ip \in RemoteAddrs : FirewallAdd(ip)
    \/ \E ip \in RemoteAddrs : FirewallDelete(ip)

\* the per-address alert and auto-block part of the cycle, with the firewall
\* handlers of the administrative layer
SpecBlock == InitNet /\ [][NextBlock]_vars

\* ------------------------------------------------- snapshots and retention
\* a variant of the pruning filter that also deletes a row at the cutoff
PrunedInclusive(t, cutoff) == t <= cutoff

\* lines 266-267: the filter of the two deletes, timestamp < cutoff
Pruned(t, cutoff) == t < cutoff

\* Alert.query.filter(Alert.created_at < cutoff).delete(): the rows that stay
KeepAlerts(B, cutoff) ==
    [r \in {x \in DOMAIN B : ~Pruned(x.created_at, cutoff)} |-> B[r]]

\* line 306: the dedupe key f"total:{p.id}"
TotalKey(n) == <<"total", n>>

\* the instants at which the retention loop is observed: the start, a second
\* and a snapshot interval after it, and the same three a retention window later
RetTimes == {0, 1, SnapshotInterval, Window, Window + 1, Window + SnapshotInterval}

\* update_docker_stats, lines 252-268: one snapshot pass with its pruning
SnapshotAndPrune ==
    /\ now - lastSample >= SnapshotInterval
    /\ LET cutoff == now - Window
           rows   == stats \cup {[proxy_id |-> n, timestamp |-> now] : n \in Nodes}
       IN /\ stats' = {r \in rows : ~Pruned(r.timestamp, cutoff)}
          /\ alerts' = KeepAlerts(alerts, cutoff)
          /\ pobs' = [acted |-> TRUE, cutoff |-> cutoff, stats |-> rows, alerts |-> alerts]
    /\ lastSample' = now
    /\ UNCHANGED <<extVars, now, pc, proxy, contUp, lastAlert, rec, chk, prior, thr, ctrVars, netVars>>

\* lines 305-306: the alert on a node's total connection count
TotalAlert(n) ==
    /\ \E alertOk \in BOOLEAN :
         LET out == EmitOutcome(lastAlert, TotalKey(n), now, DefaultCooldown, alertOk)
         IN /\ out # "suppressed"
            /\ lastAlert' = RecordEmit(lastAlert, TotalKey(n), now)
            /\ alerts' = IF out = "persisted"
                         THEN alerts (+) SetToBag({AlertRow(n, "warning", TotalKey(n), now)})
                         ELSE alerts
    /\ pobs' = [pobs EXCEPT !.acted = FALSE]
    /\ UNCHANGED <<extVars, now, pc, proxy, contUp, rec, chk, prior, thr, ctrVars, netVars,
                   stats, lastSample>>

\* cycles go by until the next observed instant
RetAdvance ==
    /\ \E t \in RetTimes : t > now /\ now' = t
    /\ pobs' = [pobs EXCEPT !.acted = FALSE]
    /\ UNCHANGED <<extVars, pc, proxy, contUp, lastAlert, alerts, rec, chk, prior, thr, ctrVars,
                   netVars, stats, lastSample>>

InitRetention ==
    /\ Init
    /\ \A n \in Nodes : proxy[n].expiry_date = <<>>

NextRetention ==
    \/ SnapshotAndPrune
    \/ \E n \in Nodes : TotalAlert(n)
    \/ RetAdvance

\* the snapshot pass and the retention pruning of the cycle
SpecRetention == InitRetention /\ [][NextRetention]_vars

\* --------------------------------------------- the cycle of the monitor loop
\* line 127: Proxy.query.filter(Proxy.container_id != None).all()
Proxies == {n \in Fleet : cont[n]}

\* a variant of the per-node loop without the try/continue: the first node that
\* raises ends the loop
ProcessedUntilFailure(ps, fail) == {n \in ps \ fail : \A m \in fail : n < m}

\* lines 134-246: the nodes whose reconciliation completes when the nodes of
\* `fail` raise inside the per-node try block (line 245: continue)
Processed(ps, fail) == ps \ fail

\* a variant in which an exception ends the loop
OnExceptionExit(phase) == "dead"

\* lines 327-330: an exception raised in any phase is printed, then the loop
\* sleeps and goes on
OnException(phase) == "sleep"

\* a variant of the snapshot pass that skips the nodes that are not running
SnapshotRowsRunning(ps, t) ==
    {[proxy_id |-> n, timestamp |-> t] : n \in {m \in ps : running[m]}}

\* lines 254-262: one ProxyStats row for every node of the query of line 127
SnapshotRows(ps, t) == {[proxy_id |-> n, timestamp |-> t] : n \in ps}

\* a variant that prunes in every cycle
PhaseAlwaysPrune(due) == "prune"

\* lines 253-268: the deletes are inside the `if` of the snapshot pass
PhaseAfterSnapshot(due) == IF due THEN "prune" ELSE "alerts"

\* the instants at which whole cycles are observed: the start and one snapshot
\* interval after it
LoopTimes == {0, SnapshotInterval}

\* the instants at which snapshot passes are observed: the start, one snapshot
\* interval after it, a retention window after that, and one sleep later
SnapTimes == {0, SnapshotInterval, Window + SnapshotInterval,
              Window + SnapshotInterval + CycleSleep}

\* the instants a sleeping loop may find when it wakes up: the same one again
\* or the next one
NextInstants(times, t) ==
    {u \in times : u >= t /\ \A v \in times : v > t => u <= v}

\* lines 118-127: a cycle begins; the query of line 127 answers or raises
LoopTop ==
    /\ lpc = "top"
    /\ \E queryOk \in BOOLEAN :
         /\ lpc' = IF queryOk THEN "nodes" ELSE OnException("top")
         /\ lobs' = [NoLobs EXCEPT !.at = now, !.last = lastSample,
                                   !.afterStop = stopSignal,
                                   !.prevAborted = (lobs.aborted # "none"),
                                   !.aborted = IF queryOk THEN "none" ELSE "top"]
    /\ UNCHANGED <<now, pc, proxy, contUp, lastAlert, alerts, rec, chk, prior, thr,
                   lockVars, alertVars, geoVars, quotaVars, callVars, ctrVars, netVars, retVars, cont, running, stopSignal>>

\* lines 134-246: the per-node loop; the nodes of `fail` raise inside it
LoopNodes ==
    /\ lpc = "nodes"
    /\ \E fail \in SUBSET Proxies :
         lobs' = [lobs EXCEPT !.rec = Processed(Proxies, fail),
                              !.recFail = fail \cap Processed(Proxies, {})]
    /\ lpc' = "limits"
    /\ UNCHANGED <<now, pc, proxy, contUp, lastAlert, alerts, rec, chk, prior, thr,
                   lockVars, alertVars, geoVars, quotaVars, callVars, ctrVars, netVars, retVars, cont, running, stopSignal>>

\* lines 248-250: _check_proxy_limits and the commit.  stop: the running nodes
\* found expired or over quota; stopFail: those whose stop command raises
\* (lines 68-76, caught per node); commitOk: the commit of line 250 succeeds.
LoopLimits ==
    /\ lpc = "limits"
    /\ \E stop \in SUBSET {n \in Proxies : running[n]} :
       \E stopFail \in SUBSET stop, commitOk \in BOOLEAN :
         IF commitOk \/ Proxies = {}
         THEN /\ running' = [n \in Fleet |-> running[n] /\ n \notin (stop \ stopFail)]
              /\ lobs' = [lobs EXCEPT !.chkd = Proxies, !.stopFail = stopFail]
              /\ lpc' = "snap"
         ELSE /\ running' = running
              /\ lobs' = [lobs EXCEPT !.aborted = "limits"]
              /\ lpc' = OnException("limits")
    /\ UNCHANGED <<now, pc, proxy, contUp, lastAlert, alerts, rec, chk, prior, thr,
                   lockVars, alertVars, geoVars, quotaVars, callVars, ctrVars, netVars, retVars, cont, stopSignal>>

\* lines 252-264: the snapshot pass, when it is due, and its commit
LoopSnap ==
    /\ lpc = "snap"
    /\ LET due  == now - lastSample >= SnapshotInterval
           rows == SnapshotRows(Proxies, now)
       IN IF ~due
          THEN /\ lobs' = [lobs EXCEPT !.pre = <<stats, alerts>>]
               /\ lpc' = PhaseAfterSnapshot(FALSE)
               /\ UNCHANGED <<stats, lastSample>>
          ELSE \E commitOk \in BOOLEAN :
                 IF commitOk
                 THEN /\ stats' = stats \cup rows
                      /\ lastSample' = now
                      /\ lobs' = [lobs EXCEPT !.due = TRUE, !.pre = <<stats, alerts>>,
                                              !.rows = rows]
                      /\ lpc' = PhaseAfterSnapshot(TRUE)
                 ELSE /\ lobs' = [lobs EXCEPT !.due = TRUE, !.pre = <<stats, alerts>>,
                                              !.aborted = "snap"]
                      /\ lpc' = OnException("snap")
                      /\ UNCHANGED <<stats, lastSample>>
    /\ UNCHANGED <<now, pc, proxy, contUp, lastAlert, alerts, rec, chk, prior, thr,
                   lockVars, alertVars, geoVars, quotaVars, callVars, ctrVars, netVars, pobs, cont, running, stopSignal>>

\* lines 265-268: the two deletes and their commit
LoopPrune ==
    /\ lpc = "prune"
    /\ \E commitOk \in BOOLEAN :
         IF commitOk
         THEN /\ stats' = {r \in stats : ~Pruned(r.timestamp, now - Window)}
              /\ alerts' = KeepAlerts(alerts, now - Window)
              /\ lpc' = "alerts"
              /\ lobs' = lobs
         ELSE /\ lobs' = [lobs EXCEPT !.aborted = "prune"]
              /\ lpc' = OnException("prune")
              /\ UNCHANGED <<stats, alerts>>
    /\ UNCHANGED <<now, pc, proxy, contUp, lastAlert, rec, chk, prior, thr,
                   lockVars, alertVars, geoVars, quotaVars, callVars, ctrVars, netVars, lastSample, pobs, cont, running, stopSignal>>

\* lines 302-311: the threshold pass.  settingsOk: the two get_setting calls
\* answer; hit: the nodes at or above the total threshold; alertOk: the store
\* accepts the Alert row (_maybe_emit_alert catches a failure).
LoopAlerts ==
    /\ lpc = "alerts"
    /\ \E settingsOk \in BOOLEAN :
         IF ~settingsOk
         THEN /\ lobs' = [lobs EXCEPT !.aborted = "alerts"]
              /\ lpc' = OnException("alerts")
              /\ UNCHANGED <<lastAlert, alerts>>
         ELSE \E hit \in SUBSET Proxies :
              \E alertOk \in [hit -> BOOLEAN] :
                LET out == [n \in hit |->
                              EmitOutcome(lastAlert, TotalKey(n), now, DefaultCooldown,
                                          alertOk[n])]
                IN /\ lastAlert' = RecordAll(lastAlert,
                                      {TotalKey(n) : n \in {m \in hit : out[m] # "suppressed"}},
                                      now)
                   /\ alerts' = alerts (+) SetToBag(
                                   {AlertRow(n, "warning", TotalKey(n), now) :
                                      n \in {m \in hit : out[m] = "persisted"}})
                   /\ lobs' = [lobs EXCEPT !.alerted = Proxies]
                   /\ lpc' = "sleep"
    /\ UNCHANGED <<now, pc, proxy, contUp, rec, chk, prior, thr,
                   lockVars, alertVars, geoVars, quotaVars, callVars, ctrVars, netVars, retVars, cont, running, stopSignal>>

\* line 330: time.sleep(3); the next cycle is observed at the same instant
\* again or at the next one
LoopSleep ==
    /\ lpc = "sleep"
    /\ lpc' = "top"
    /\ now' \in NextInstants(LoopTimes, now)
    /\ lobs' = [NoLobs EXCEPT !.aborted = lobs.aborted]
    /\ UNCHANGED <<pc, proxy, contUp, lastAlert, alerts, rec, chk, prior, thr,
                   lockVars, alertVars, geoVars, quotaVars, callVars, ctrVars, netVars, retVars, cont, running, stopSignal>>

\* the steps of the monitor thread
LoopCycle ==
    \/ LoopTop
    \/ LoopNodes
    \/ LoopLimits
    \/ LoopSnap
    \/ LoopPrune
    \/ LoopAlerts
    \/ LoopSleep

\* create_app, lines 56-62: the loop runs in a daemon thread and is handed
\* nothing to signal it with; the panel is asked to shut down
RequestStop ==
    /\ ~stopSignal
    /\ stopSignal' = TRUE
    /\ UNCHANGED <<now, pc, proxy, contUp, lastAlert, alerts, rec, chk, prior, thr,
                   lockVars, alertVars, geoVars, quotaVars, callVars, ctrVars, netVars, retVars, lpc, cont, running, lobs>>

\* between two snapshot passes an administrator creates or deletes the second
\* node's container, or stops or starts a node
ContainerChange(n) ==
    /\ lpc = "snap"
    /\ n # 1
    /\ cont' = [cont EXCEPT ![n] = ~@]
    /\ running' = [running EXCEPT ![n] = ~cont[n]]
    /\ UNCHANGED <<now, pc, proxy, contUp, lastAlert, alerts, rec, chk, prior, thr,
                   lockVars, alertVars, geoVars, quotaVars, callVars, ctrVars, netVars, retVars, lpc, stopSignal, lobs>>

NodeToggle(n) ==
    /\ lpc = "snap"
    /\ cont[n]
    /\ running' = [running EXCEPT ![n] = ~@]
    /\ UNCHANGED <<now, pc, proxy, contUp, lastAlert, alerts, rec, chk, prior, thr,
                   lockVars, alertVars, geoVars, quotaVars, callVars, ctrVars, netVars, retVars, lpc, cont, stopSignal, lobs>>

\* between two cycles an administrator starts a stopped node again
NodeStart(n) ==
    /\ lpc = "top"
    /\ cont[n] /\ ~running[n]
    /\ running' = [running EXCEPT ![n] = TRUE]
    /\ UNCHANGED <<now, pc, proxy, contUp, lastAlert, alerts, rec, chk, prior, thr,
                   lockVars, alertVars, geoVars, quotaVars, callVars, ctrVars, netVars, retVars, lpc, cont, stopSignal, lobs>>

InitLoop ==
    /\ Init
    /\ \A n \in Nodes : proxy[n].expiry_date = <<>>

NextLoop ==
    \/ LoopCycle
    \/ RequestStop
    \/ \E n \in Fleet : NodeStart(n)

\* the phases of one cycle of update_docker_stats and what may fail in each
SpecLoop == InitLoop /\ [][NextLoop]_vars

\* the monitor thread keeps running: its next step is eventually taken
SpecLoopFair == SpecLoop /\ WF_vars(LoopCycle)

\* lines 302-330 of one cycle and lines 118-250 of the next, as far as the
\* snapshot pass sees them: the total-connection alert of the first node is
\* raised or not, the loop sleeps, and the next cycle reaches line 252 (from
\* "top": the first cycle reaches it)
RestOfCycle ==
    /\ lpc \in {"top", "alerts", "sleep"}
    /\ lpc' = "snap"
    /\ \E emit \in BOOLEAN, alertOk \in BOOLEAN :
         LET out == IF emit /\ lpc = "alerts"
                    THEN EmitOutcome(lastAlert, TotalKey(1), now, DefaultCooldown, alertOk)
                    ELSE "suppressed"
         IN /\ lastAlert' = IF out = "suppressed" THEN lastAlert
                            ELSE RecordEmit(lastAlert, TotalKey(1), now)
            /\ alerts' = IF out = "persisted"
                         THEN alerts (+) SetToBag({AlertRow(1, "warning", TotalKey(1), now)})
                         ELSE alerts
    /\ \E t \in NextInstants(SnapTimes, now) :
         /\ now' = t
         /\ lobs' = [NoLobs EXCEPT !.at = t, !.last = lastSample]
    /\ UNCHANGED <<pc, proxy, contUp, rec, chk, prior, thr,
                   lockVars, alertVars, geoVars, quotaVars, callVars, ctrVars, netVars, retVars, cont, running, stopSignal>>

InitSnap == InitLoop

NextSnap ==
    \/ LoopSnap
    \/ LoopPrune
    \/ RestOfCycle
    \/ \E n \in Fleet : ContainerChange(n)
    \/ \E n \in Fleet : NodeToggle(n)

\* the snapshot pass and the pruning of successive cycles
SpecSnap == InitSnap /\ [][NextSnap]_vars

\* ------------------------------------------------- the four locks, by thread
\* a variant in which the monitor looks countries up while it holds the
\* connection-map lock
HeldAtNested(pos) ==
    CASE pos \in {"rate"} -> {"rate"}
      [] pos \in {"geo_read", "geo_write"} -> {"live", "geo"}
      [] pos \in {"lookup", "live_clear", "live", "conn", "top_ips"} -> {"live"}
      [] pos \in {"alert"} -> {"alerts"}
      [] OTHER -> {}

\* a variant in which the monitor takes the connection-map lock only after
\* it has cleared the map
HeldAtRefillOnly(pos) ==
    CASE pos \in {"rate"} -> {"rate"}
      [] pos \in {"geo_read", "geo_write"} -> {"geo"}
      [] pos \in {"live", "conn", "top_ips"} -> {"live"}
      [] pos \in {"alert"} -> {"alerts"}
      [] OTHER -> {}

\* the locks a thread holds in each region: _rate_lock (monitor.py lines
\* 214-216), _geo_lock (helpers.py lines 49-51 and 60-62), _live_connections_lock
\* (monitor.py lines 295-300, api.py lines 112-117 and 199-200), _alerts_lock
\* (monitor.py lines 27-31)
HeldAt(pos) ==
    CASE pos \in {"rate"} -> {"rate"}
      [] pos \in {"geo_read", "geo_write"} -> {"geo"}
      [] pos \in {"live_clear", "live", "conn", "top_ips"} -> {"live"}
      [] pos \in {"alert"} -> {"alerts"}
      [] OTHER -> {}

\* update_docker_stats, one node with one connection: the order of the regions
\* of a cycle ("rated", "lookup", "built", "installed", "persist" hold no lock)
MonNext(pos) ==
    CASE pos = "idle" -> "rate"
      [] pos = "rate" -> "rated"
      [] pos = "rated" -> "geo_read"
      [] pos = "geo_read" -> "lookup"
      [] pos = "lookup" -> "geo_write"
      [] pos = "geo_write" -> "built"
      [] pos = "built" -> "live_clear"
      [] pos = "live_clear" -> "live"
      [] pos = "live" -> "installed"
      [] pos = "installed" -> "alert"
      [] pos = "alert" -> "persist"
      [] OTHER -> "idle"

\* thread t may enter region pos: no other thread holds a lock it takes there
MayEnter(t, pos) ==
    \A l \in HeldAt(pos) \ HeldAt(tpc[t]) :
        \A u \in LockThreads \ {t} : l \notin HeldAt(tpc[u])

\* lines 272-293: the entries of new_live for the connections in the kernel table
NewLive ==
    [n \in Fleet |->
       {[ip |-> k[2], remote_port |-> k[3],
         connected_for_seconds |-> now - FirstSeenOf(firstSeen, k, now)] :
          k \in {x \in conns : x[1] = n}}]

\* the monitor thread goes on to its next region; entering "live_clear" it
\* clears the live map (line 296), entering "live" it fills it with the new
\* dicts (line 297) and drops the first-seen records of the connections that
\* are gone (lines 298-300)
MonStep ==
    LET pos == MonNext(tpc[0])
    IN /\ MayEnter(0, pos)
       /\ tpc' = [tpc EXCEPT ![0] = pos]
       /\ IF pos = "live_clear"
          THEN /\ live' = [n \in Fleet |-> {}]
               /\ tagged' = [n \in Fleet |-> {}]
               /\ UNCHANGED <<firstSeen, robs>>
          ELSE IF pos = "live"
          THEN /\ live' = NewLive
               /\ firstSeen' = [k \in conns |-> FirstSeenOf(firstSeen, k, now)]
               /\ tagged' = [n \in Fleet |-> {}]
               /\ robs' = [r \in Readers |-> NoRobs]
          ELSE UNCHANGED <<live, firstSeen, tagged, robs>>
       /\ UNCHANGED <<now, pc, proxy, contUp, lastAlert, alerts, rec, chk, prior, thr,
                      ctrVars, retVars, loopVars, alertVars, geoVars, quotaVars, callVars, conns, blocked, rules, autoBlock,
                      nobs, bobs>>

\* api.py proxy_connections, lines 199-200: under the lock, copy the list of
\* node n's records (the dicts themselves are shared with the map)
ReadConnections(r, n) ==
    /\ tpc[r] = "idle"
    /\ MayEnter(r, "conn")
    /\ tpc' = [tpc EXCEPT ![r] = "conn"]
    /\ LET items == <<{<<e, e \in tagged[n]>> : e \in live[n]}>>
       IN robs' = [robs EXCEPT ![r] = [res |-> items,
                                       changed |-> (robs[r].res # << >> /\ robs[r].res # items),
                                       torn |-> tpc[0] = "live_clear"]]
    /\ UNCHANGED <<now, pc, proxy, contUp, lastAlert, alerts, rec, chk, prior, thr,
                   ctrVars, netVars, retVars, loopVars, alertVars, geoVars, quotaVars, callVars, tagged>>

\* api.py reports_top_ips, lines 112-117: under the lock, c['proxy_id'] = pid
\* on every record of the map
ReadTopIps(r) ==
    /\ tpc[r] = "idle"
    /\ MayEnter(r, "top_ips")
    /\ tpc' = [tpc EXCEPT ![r] = "top_ips"]
    /\ tagged' = live
    /\ UNCHANGED <<now, pc, proxy, contUp, lastAlert, alerts, rec, chk, prior, thr,
                   ctrVars, netVars, retVars, loopVars, alertVars, geoVars, quotaVars, callVars, robs>>

\* the request thread leaves the `with` block
ReadDone(r) ==
    /\ tpc[r] \in {"conn", "top_ips"}
    /\ tpc' = [tpc EXCEPT ![r] = "idle"]
    /\ UNCHANGED <<now, pc, proxy, contUp, lastAlert, alerts, rec, chk, prior, thr,
                   ctrVars, netVars, retVars, loopVars, alertVars, geoVars, quotaVars, callVars, tagged, robs>>

\* a remote endpoint connects to, or disconnects from, the first port
FirstPortChange ==
    \E k \in {x \in ConnKeys : x[3] = 1} : ConnChange(k)

InitThreads ==
    /\ Init
    /\ \A n \in Nodes : proxy[n].expiry_date = <<>>

NextThreads ==
    \/ MonStep
    \/ \E r \in Readers : ReadConnections(r, 1)
    \/ \E r \in Readers : ReadTopIps(r)
    \/ \E r \in Readers : ReadDone(r)
    \/ FirstPortChange

\* the monitor thread and two request threads on the shared structures
SpecThreads == InitThreads /\ [][NextThreads]_vars

\* ------------------------------------------------- the alert thresholds
\* int(get_setting(key, "<default>") or <default>), lines 302-303 with
\* helpers.py lines 26-28: <<n>>, or << >> when int() raises ValueError
Threshold(v, default) ==
    IF v = NoRow \/ v = EmptyText THEN <<default>>
    ELSE IF v[1] = "int" THEN <<v[2]>>
    ELSE << >>

\* routes/settings.py lines 15-18 with set_setting: the form field is stored
\* as typed
SaveThreshold(key) ==
    /\ \E v \in StoredValues(IF key = "conn" THEN DefaultConnThreshold
                             ELSE DefaultIpConnThreshold) :
          /\ v # settings[key]
          /\ settings' = [settings EXCEPT ![key] = v]
    /\ tobs' = NoTobs
    /\ UNCHANGED <<now, pc, proxy, contUp, lastAlert, alerts, rec, chk, prior, thr,
                   ctrVars, netVars, retVars, loopVars, lockVars, geoVars, quotaVars, callVars, load>>

\* lines 231-243 and 274-287 of a later cycle: node n's connection counts
\* have changed
LoadChange(n) ==
    /\ \E a \in {DefaultConnThreshold - 1, DefaultConnThreshold},
          c \in {DefaultIpConnThreshold - 1, DefaultIpConnThreshold} :
          /\ [active |-> a, ip |-> c] # load[n]
          /\ load' = [load EXCEPT ![n] = [active |-> a, ip |-> c]]
    /\ tobs' = NoTobs
    /\ UNCHANGED <<now, pc, proxy, contUp, lastAlert, alerts, rec, chk, prior, thr,
                   ctrVars, netVars, retVars, loopVars, lockVars, geoVars, quotaVars, callVars, settings>>

\* lines 302-311: the alert phase of one cycle over the fleet, for the one
\* remote address "a"; a ValueError at line 302 or 303 leaves the cycle by
\* the handler of line 327
ThresholdAlerts ==
    LET tt == Threshold(settings.conn, DefaultConnThreshold)
        ti == Threshold(settings.ip, DefaultIpConnThreshold)
    IN /\ IF tt = << >> \/ ti = << >>
          THEN /\ tobs' = [acted |-> TRUE, raised |-> TRUE, called |-> {}]
               /\ UNCHANGED <<lastAlert, alerts>>
          ELSE LET keys == {TotalKey(n) : n \in {m \in Fleet : load[m].active >= tt[1]}}
                           \cup {IpKey(n, "a") : n \in {m \in Fleet : load[m].ip >= ti[1]}}
               IN \E alertOk \in [keys -> BOOLEAN] :
                    LET out == [k \in keys |->
                                  EmitOutcome(lastAlert, k, now, DefaultCooldown, alertOk[k])]
                    IN /\ lastAlert' = RecordAll(lastAlert,
                                          {k \in keys : out[k] # "suppressed"}, now)
                       /\ alerts' = alerts (+) SetToBag(
                                       {AlertRow(k[2], "warning", k, now) :
                                          k \in {x \in keys : out[x] = "persisted"}})
                       /\ tobs' = [acted |-> TRUE, raised |-> FALSE, called |-> keys]
       /\ UNCHANGED <<now, pc, proxy, contUp, rec, chk, prior, thr,
                      ctrVars, netVars, retVars, loopVars, lockVars, geoVars, quotaVars, callVars, settings, load>>

InitThreshold ==
    /\ Init
    /\ \A n \in Nodes : proxy[n].expiry_date = <<>>

NextThreshold ==
    \/ \E key \in {"conn", "ip"} : SaveThreshold(key)
    \/ \E n \in Fleet : LoadChange(n)
    \/ ThresholdAlerts

\* the alert phase under changing threshold settings
SpecThreshold == InitThreshold /\ [][NextThreshold]_vars

\* ------------------------------------------------- the country lookup
\* helpers._is_private_ip, lines 38-43: an unparsable string is not private
_is_private_ip(ip) == ip[1] \in {"private", "loopback", "link_local"}

\* a variant that stores the time of the lookup as the expiry
CacheExpiryNow(t) == t

\* line 62: the expiry stored with a label
CacheExpiry(t) == t + GeoTtl

\* lines 52-59: the label a lookup that ends as o gives
LookupResult(o) == IF o[1] = "label" THEN o[2] ELSE "Unknown"

\* lines 49-51: the cached label is still valid at time t
CacheHit(ip, t) ==
    /\ ip \in DOMAIN geoCache
    /\ (IF ip \in DOMAIN geoCacheExpiry THEN geoCacheExpiry[ip] ELSE 0) > t

\* helpers._lookup_country, lines 45-63, one call
LookupCountry(ip, o) ==
    LET local   == ip[2] = "" \/ _is_private_ip(ip)
        hit     == ~local /\ CacheHit(ip, now)
        country == LookupResult(o)
        stores  == ~local /\ ~hit /\ country # "raise"
    IN /\ geoCache' = IF stores
                      THEN [a \in DOMAIN geoCache \cup {ip} |->
                              IF a = ip THEN country ELSE geoCache[a]]
                      ELSE geoCache
       /\ geoCacheExpiry' = IF stores
                            THEN [a \in DOMAIN geoCacheExpiry \cup {ip} |->
                                    IF a = ip THEN CacheExpiry(now) ELSE geoCacheExpiry[a]]
                            ELSE geoCacheExpiry
       /\ gobs' = [acted |-> TRUE, ip |-> ip, at |-> now,
                   result |-> IF local THEN "Local"
                              ELSE IF hit THEN geoCache[ip] ELSE country,
                   looked |-> ~local /\ ~hit /\ o[1] # "no_tool",
                   failed |-> ~local /\ ~hit /\ o[1] # "label",
                   cache |-> geoCache, expiry |-> geoCacheExpiry, was |-> gobs.cachedAt,
                   cachedAt |-> IF stores
                                THEN [a \in DOMAIN gobs.cachedAt \cup {ip} |->
                                        IF a = ip THEN now ELSE gobs.cachedAt[a]]
                                ELSE gobs.cachedAt]
       /\ UNCHANGED <<now, pc, proxy, contUp, lastAlert, alerts, rec, chk, prior, thr,
                      ctrVars, netVars, retVars, loopVars, lockVars, alertVars, quotaVars, callVars>>

\* the instants the lookups are observed at
GeoTimes == {0, 1, GeoTtl - 1, GeoTtl, GeoTtl + 1}

\* time.time() moves on to the next instant
GeoAdvance ==
    /\ \E t \in GeoTimes : t > now /\ (\A u \in GeoTimes : u > now => t <= u) /\ now' = t
    /\ gobs' = [gobs EXCEPT !.acted = FALSE]
    /\ UNCHANGED <<pc, proxy, contUp, lastAlert, alerts, rec, chk, prior, thr,
                   ctrVars, netVars, retVars, loopVars, lockVars, alertVars, quotaVars, callVars,
                   geoCache, geoCacheExpiry>>

InitGeo ==
    /\ Init
    /\ \A n \in Nodes : proxy[n].expiry_date = <<>>

NextGeo ==
    \/ \E ip \in GeoAddrs, o \in GeoOutcomes : LookupCountry(ip, o)
    \/ GeoAdvance

\* calls of _lookup_country over time
SpecGeo == InitGeo /\ [][NextGeo]_vars

\* ------------------------------------------------- the cooldown, call by call
\* a variant that records the time of every attempt
AfterCheckTouching(last, key, t, cooldown_seconds) == RecordEmit(last, key, t)

\* _maybe_emit_alert, lines 27-31: _last_alert_by_key after the locked block
AfterCheck(last, key, t, cooldown_seconds) ==
    IF Suppressed(last, key, t, cooldown_seconds) THEN last
    ELSE RecordEmit(last, key, t)

\* _maybe_emit_alert, a whole call made by the monitor thread at the present time
EmitCall(key) ==
    /\ Len(eobs) < MaxCalls
    /\ \E storeOk \in BOOLEAN :
         LET out == EmitOutcome(lastAlert, key, now, DefaultCooldown, storeOk)
         IN /\ lastAlert' = AfterCheck(lastAlert, key, now, DefaultCooldown)
            /\ alerts' = IF out = "persisted"
                         THEN alerts (+) SetToBag({AlertRow(key[2], "warning", key, now)})
                         ELSE alerts
            /\ eobs' = Append(eobs, [key |-> key, at |-> now, out |-> out])
    /\ UNCHANGED <<now, pc, proxy, contUp, rec, chk, prior, thr,
                   ctrVars, netVars, retVars, loopVars, lockVars, alertVars, geoVars,
                   quotaVars>>

\* the clock between two calls
CallTick ==
    /\ now + TickStep <= MaxTime
    /\ now' = now + TickStep
    /\ UNCHANGED <<pc, proxy, contUp, lastAlert, alerts, rec, chk, prior, thr,
                   ctrVars, netVars, retVars, extVars>>

InitCalls ==
    /\ Init
    /\ \A n \in Nodes : proxy[n].expiry_date = <<>>

NextCalls ==
    \/ \E n \in Fleet : EmitCall(TotalKey(n))
    \/ CallTick

\* successive calls of _maybe_emit_alert from the monitor thread
SpecCalls == InitCalls /\ [][NextCalls]_vars

\* ------------------------------------------------- the quota reset, observed
\* routes/proxy.py reset_quota(), with the counters at the reset kept for
\* comparison
QuotaReset(n) ==
    /\ pc = "idle"
    /\ proxy' = [proxy EXCEPT ![n] = ResetQuotaRow(proxy[n])]
    /\ prior' = [prior EXCEPT ![n] = IF prior[n] = "failed" THEN "none" ELSE prior[n]]
    /\ rec' = NoRec
    /\ chk' = NoChk
    /\ qobs' = [qobs EXCEPT ![n] = <<proxy[n].upload, proxy[n].download>>]
    /\ UNCHANGED <<now, pc, contUp, lastAlert, alerts, thr,
                   ctrVars, netVars, retVars, loopVars, lockVars, alertVars, geoVars,
                   callVars>>

InitQuota ==
    /\ Init
    /\ \A n \in Nodes : proxy[n].expiry_date = <<>>

NextQuota ==
    \/ Reconcile
    \/ CheckLimits
    \/ Tick
    \/ \E n \in Nodes : QuotaReset(n)
    \/ \E n \in Nodes, q \in QuotaChoices : BotSetQuota(n, q)

\* monitor cycles and quota resets
SpecQuota == InitQuota /\ [][NextQuota]_vars

\* ================================================================ claims
\* A state right after a _check_proxy_limits call that had node n in its list.
Checked(n) == pc = "idle" /\ chk[n].seen # "-"

\* The claims' own reading of the limits, written from the specification text.
UsageFromBaseline(n) ==
    (proxy[n].upload - proxy[n].quota_base_upload)
    + (proxy[n].download - proxy[n].quota_base_download)

ExpiryPassed(n) == proxy[n].expiry_date # <<>> /\ proxy[n].expiry_date[1] < now

\* ---- C1
\* C1 as stated: a running node with quota_bytes > 0, no expiry in the past and
\* baseline-relative usage >= quota_bytes is 'stopped' after one call of
\* _check_proxy_limits.
C1_AsStated ==
    \A n \in Nodes :
        (/\ Checked(n)
         /\ chk[n].seen = "running"
         /\ proxy[n].quota_bytes > 0
         /\ ~ExpiryPassed(n)
         /\ UsageFromBaseline(n) >= proxy[n].quota_bytes)
        => proxy[n].status = "stopped"

\* C1 amended: the same, unless the container stop raised in that call.
C1_StoppedUnlessStopFails ==
    \A n \in Nodes :
        (/\ Checked(n)
         /\ chk[n].seen = "running"
         /\ proxy[n].quota_bytes > 0
         /\ ~ExpiryPassed(n)
         /\ UsageFromBaseline(n) >= proxy[n].quota_bytes
         /\ chk[n].stop # "failed")
        => (proxy[n].status = "stopped" /\ chk[n].stop = "ok" /\ ~contUp[n])

C1_Witness ==
    \E n \in Nodes :
        /\ Checked(n)
        /\ chk[n].seen = "running"
        /\ proxy[n].quota_bytes > 0
        /\ proxy[n].quota_start
        /\ ~ExpiryPassed(n)
        /\ UsageFromBaseline(n) = proxy[n].quota_bytes
        /\ proxy[n].status = "stopped"

\* ---- C2
\* C2 as stated: a running node whose expiry is strictly earlier than now is
\* 'stopped' after the limit check of the cycle; a node already 'stopped' keeps
\* that status whatever its expiry is.
C2_AsStated ==
    \A n \in Nodes :
        /\ (Checked(n) /\ chk[n].seen = "running" /\ ExpiryPassed(n))
              => proxy[n].status = "stopped"
        /\ (Checked(n) /\ chk[n].seen = "stopped") => proxy[n].status = "stopped"

\* C2 amended: the running, expired node is stopped unless the container stop
\* raised in that check (then it stays 'running'); the stopped node stays stopped.
C2_ExpiredStoppedUnlessStopFails ==
    \A n \in Nodes :
        /\ (Checked(n) /\ chk[n].seen = "running" /\ ExpiryPassed(n))
              => IF chk[n].stop = "failed"
                 THEN proxy[n].status = "running"
                 ELSE proxy[n].status = "stopped" /\ chk[n].stop = "ok"
        /\ (Checked(n) /\ chk[n].seen = "stopped")
              => (proxy[n].status = "stopped" /\ chk[n].stop = "none")

C2_Witness ==
    \E n \in Nodes :
        /\ Checked(n)
        /\ chk[n].seen = "running"
        /\ ExpiryPassed(n)
        /\ proxy[n].quota_bytes = 0
        /\ proxy[n].status = "stopped"

\* ---- C3
\* C3 as stated: while a node's limit stays exceeded and no administrative
\* action touches it, the enforcer's stop command is issued exactly once: a
\* check never issues it for a node for which an earlier check already did.
C3_AsStated ==
    \A n \in Nodes :
        (Checked(n) /\ chk[n].prior # "none") => chk[n].stop = "none"

\* C3 amended: a stop command that failed is issued again by the next check;
\* once one has succeeded no later check issues another until an
\* administrative start, however long the limit stays exceeded.
C3_NoStopAfterSuccessfulStop ==
    \A n \in Nodes :
        /\ (Checked(n) /\ chk[n].prior = "ok")
              => (chk[n].stop = "none" /\ proxy[n].status # "running")
        /\ (prior[n] = "ok") => proxy[n].status # "running"

C3_Witness ==
    \E n \in Nodes :
        /\ Checked(n)
        /\ chk[n].prior = "ok"
        /\ chk[n].seen = "stopped"
        /\ proxy[n].quota_bytes > 0
        /\ UsageFromBaseline(n) >= proxy[n].quota_bytes

\* ---- C4
\* C4: for a node whose status is not 'running', _check_proxy_limits issues no
\* stop command, leaves the status, writes no activity log entry and emits no
\* alert, whatever its quota usage and expiry are.
C4_NonRunningUntouched ==
    \A n \in Nodes :
        (Checked(n) /\ chk[n].seen # "running")
        => /\ chk[n].stop = "none"
           /\ proxy[n].status = chk[n].seen
           /\ ~chk[n].log
           /\ chk[n].alert = "none"

C4_Witness ==
    \E n \in Nodes :
        /\ Checked(n)
        /\ chk[n].seen = "exited"
        /\ proxy[n].quota_bytes > 0
        /\ UsageFromBaseline(n) >= proxy[n].quota_bytes
        /\ ExpiryPassed(n)

\* ---- C5
\* C5: no step of the monitor loop changes a node's status from a non-running
\* value to 'running' or starts its container (the monitor's steps are the ones
\* that move pc).
C5_MonitorNeverStarts ==
    [][pc' # pc =>
         \A n \in Nodes :
             /\ (proxy[n].status # "running" => proxy'[n].status # "running")
             /\ (~contUp[n] => ~contUp'[n])]_vars

\* a manually stopped node, its limits not exceeded, has gone through a whole cycle
C5_Witness ==
    \E n \in Nodes :
        /\ Checked(n)
        /\ chk[n].seen = "stopped"
        /\ chk[n].prior = "none"
        /\ rec[n].ok
        /\ ~ExpiryPassed(n)
        /\ proxy[n].quota_bytes = 0
        /\ proxy[n].status = "stopped"
        /\ ~contUp[n]

\* ---- C6
\* Alert rows that reference node n
AlertsOf(n) == {a \in BagToSet(alerts) : a.proxy_id = n}

\* C6 as stated: in one full cycle a running node with a started quota window,
\* quota_bytes = Q > 0, baseline 0/0 before the cycle and reconciled
\* upload + download >= Q ends the cycle stopped, with exactly one persisted
\* warning AlertEvent that references it (here even granting that the
\* container stop does not raise and the store accepts the alert).
C6_AsStated ==
    \A n \in Nodes :
        (/\ Checked(n)
         /\ rec[n].ok
         /\ rec[n].base0
         /\ chk[n].seen = "running"
         /\ proxy[n].quota_bytes > 0
         /\ proxy[n].upload + proxy[n].download >= proxy[n].quota_bytes
         /\ chk[n].stop # "failed"
         /\ chk[n].alert # "lost")
        => /\ proxy[n].status = "stopped"
           /\ \E a \in AlertsOf(n) :
                 /\ a.severity = "warning"
                 /\ a.created_at = now
                 /\ CopiesIn(a, alerts) = 1

\* ---- C7
ClampedUsage(n) ==
    IF proxy[n].quota_start
    THEN (IF proxy[n].upload > proxy[n].quota_base_upload
          THEN proxy[n].upload - proxy[n].quota_base_upload ELSE 0)
         + (IF proxy[n].download > proxy[n].quota_base_download
            THEN proxy[n].download - proxy[n].quota_base_download ELSE 0)
    ELSE proxy[n].upload + proxy[n].download

\* C7 as stated: the usage the enforcer compares against quota_bytes equals
\* (upload - quota_base_upload) + (download - quota_base_download) in every
\* node state, and the node is stopped for quota exactly when that sum reaches
\* quota_bytes.
C7_AsStated ==
    \A n \in Nodes :
        (Checked(n) /\ chk[n].used # <<>>)
        => /\ chk[n].used[1] = UsageFromBaseline(n)
           /\ (chk[n].stop # "none") <=> (UsageFromBaseline(n) >= proxy[n].quota_bytes)

\* C7 amended: with a started quota window the compared usage is
\* max(0, upload - quota_base_upload) + max(0, download - quota_base_download),
\* each direction clamped at 0; without a quota window (quota_start unset) it is
\* upload + download, measured from absolute zero.
C7_UsageClampedOrAbsolute ==
    \A n \in Nodes :
        /\ (Checked(n) /\ chk[n].used # <<>>)
           => /\ chk[n].used[1] = ClampedUsage(n)
              /\ (chk[n].stop # "none") <=> (ClampedUsage(n) >= proxy[n].quota_bytes)
        /\ (Checked(n) /\ chk[n].seen = "running" /\ ~ExpiryPassed(n)
              /\ proxy[n].quota_bytes > 0)
           => chk[n].used # <<>>

\* a counter below its baseline, and a quota without a window over a non-zero baseline
C7_Witness ==
    \E n \in Nodes :
        /\ Checked(n)
        /\ chk[n].used # <<>>
        /\ chk[n].used[1] # UsageFromBaseline(n)
        /\ proxy[n].quota_start
        /\ proxy[n].upload < proxy[n].quota_base_upload
        /\ chk[n].stop = "ok"

\* ---- C9
\* the enforcer moved node n from 'running' to 'stopped' in the last check
EnforcerStopped(n) ==
    Checked(n) /\ chk[n].seen = "running" /\ proxy[n].status = "stopped"

C9_WitnessSecondAlert ==
    \E n \in Nodes :
        /\ EnforcerStopped(n)
        /\ chk[n].alert = "persisted"
        /\ Cardinality(AlertsOf(n)) = 2

\* ---- C10
\* C10: when the stop command fails in a check, the node stays 'running' and no
\* auto-stop alert or log entry is written in that check; the next check in
\* which the node is still running with a limit exceeded issues the stop again.
C10_FailedStopRetried ==
    \A n \in Nodes :
        /\ (Checked(n) /\ chk[n].stop = "failed")
           => /\ proxy[n].status = "running"
              /\ contUp[n]
              /\ chk[n].alert = "none"
              /\ ~chk[n].log
              /\ prior[n] = "failed"
        /\ (/\ Checked(n)
            /\ chk[n].prior = "failed"
            /\ chk[n].seen = "running"
            /\ \/ ExpiryPassed(n)
               \/ proxy[n].quota_bytes > 0 /\ ClampedUsage(n) >= proxy[n].quota_bytes)
           => chk[n].stop # "none"

\* a stop that failed in one check and succeeded in the next
C10_Witness ==
    \E n \in Nodes :
        /\ Checked(n)
        /\ chk[n].prior = "failed"
        /\ chk[n].stop = "ok"
        /\ proxy[n].status = "stopped"

\* ---- C8
\* both threads have made their call, with the same dedupe key
TwoCallsDone(key) ==
    \A t \in Threads : thr[t].pc = "idle" /\ thr[t].result # "none" /\ thr[t].key = key

Gap == IF thr[1].now >= thr[2].now THEN thr[1].now - thr[2].now
       ELSE thr[2].now - thr[1].now

RowsOfKey(key) == {a \in BagToSet(alerts) : a.message = key}

PersistedOfKey(key) ==
    LET rows == RowsOfKey(key)
    IN IF rows = {} THEN 0
       ELSE BagCardinality([a \in rows |-> alerts[a]])

\* C8 as stated: two calls of _maybe_emit_alert with one key less than
\* cooldown_seconds apart persist exactly one AlertEvent, two calls at least
\* cooldown_seconds apart persist two, also when they come from concurrent threads.
C8_AsStated ==
    \A key \in EmitKeys :
        TwoCallsDone(key)
        => IF Gap < DefaultCooldown
           THEN PersistedOfKey(key) = 1
           ELSE PersistedOfKey(key) = 2
\* ---- C11
\* a reconciliation of node n that got a reading has just written the counters
Reconciled(n) == cobs[n].acted /\ cobs[n].ok

\* C11 as stated: the upload and download written by two consecutive
\* reconciliations that got a reading never decrease unless the counters were
\* explicitly reset in between, also when the source that answers changes.
C11_AsStated ==
    \A n \in Nodes :
        (Reconciled(n) /\ cobs[n].wprev # <<>>)
        => /\ proxy[n].upload >= cobs[n].wprev[1]
           /\ proxy[n].download >= cobs[n].wprev[2]

\* ---- C12
\* C12: when the packet filter does not answer and the container runtime query
\* raises in a cycle, the per-node step ends without a reading and the node's
\* upload and download after it are the ones before it.
C12_TotalFailureKeepsCounters ==
    [][\A n \in Nodes :
          (cobs'[n].acted /\ ~cobs'[n].iptAns /\ ~cobs'[n].rtAns)
          => /\ ~cobs'[n].ok
             /\ proxy'[n].upload = proxy[n].upload
             /\ proxy'[n].download = proxy[n].download]_vars

\* both sources failed for a node whose counters were not zero
C12_Witness ==
    \E n \in Nodes :
        /\ cobs[n].acted
        /\ ~cobs[n].iptAns
        /\ ~cobs[n].rtAns
        /\ proxy[n].upload > 0
        /\ proxy[n].download > 0

\* ---- C13
\* C13: every upload_rate_bps and download_rate_bps value the loop writes is
\* >= 0, whatever the two successive samples are.
C13_RatesNonNegative ==
    \A n \in Nodes : rate[n].up >= 0 /\ rate[n].down >= 0

\* a counter lower than in the previous sample, taken at an equal or earlier time
C13_Witness ==
    \E n \in Nodes :
        /\ Reconciled(n)
        /\ cobs[n].prev # <<>>
        /\ cobs[n].last[1] < cobs[n].prev[1]
        /\ cobs[n].last[3] <= cobs[n].prev[3]
        /\ cobs[n].last[2] > cobs[n].prev[2]
        /\ rate[n].up = 0
        /\ rate[n].down > 0

\* ---- C14
\* max(0, d) / max(epsilon, e) in whole bytes per second, with the elapsed time
\* taken in milliseconds (epsilon = 1 ms)
ExpectedRate(d, e) ==
    LET ms  == IF e * 1000 > 1 THEN e * 1000 ELSE 1
        pos == IF d > 0 THEN d ELSE 0
    IN (pos * 1000) \div ms

\* C14: the first reconciliation of a node since process start that gets a
\* reading writes rate 0 for both directions; every later one writes
\* max(0, current - previous) / max(epsilon, elapsed) per direction (as a whole
\* number), previous being the sample stored by the last reconciliation that got
\* a reading, and stores the current sample in its place.
C14_RateFromPreviousSample ==
    \A n \in Nodes :
        /\ Reconciled(n)
           => /\ lastBytes[n] = <<proxy[n].upload, proxy[n].download, now>>
              /\ IF cobs[n].prev = <<>>
                 THEN rate[n] = [up |-> 0, down |-> 0]
                 ELSE /\ rate[n].up = ExpectedRate(proxy[n].upload - cobs[n].prev[1],
                                                   now - cobs[n].prev[3])
                      /\ rate[n].down = ExpectedRate(proxy[n].download - cobs[n].prev[2],
                                                     now - cobs[n].prev[3])
        /\ lastBytes[n] = cobs[n].last

\* a first sample with non-zero counters
C14_Witness ==
    \E n \in Nodes :
        /\ Reconciled(n)
        /\ cobs[n].prev = <<>>
        /\ proxy[n].upload > 0
        /\ proxy[n].download > 0

\* a later sample, two seconds after the previous one, with a positive delta
C14_WitnessLater ==
    \E n \in Nodes :
        /\ Reconciled(n)
        /\ cobs[n].prev # <<>>
        /\ now - cobs[n].prev[3] = 2
        /\ proxy[n].upload > cobs[n].prev[1]
\* ---- C15
\* the live-snapshot entries of connection k
LiveEntries(k) == {e \in live[k[1]] : e.ip = k[2] /\ e.remote_port = k[3]}

\* C15 as stated: a connection observed in one cycle and not in the next has no
\* first-seen record and no live-snapshot entry after the second; a connection
\* observed in both keeps its first-seen timestamp and its age in the second
\* cycle is greater than its age in the first.
C15_AsStated ==
    nobs.acted =>
        \A k \in DOMAIN nobs.prevFirst :
            IF k \in nobs.seen
            THEN /\ k \in DOMAIN firstSeen
                 /\ firstSeen[k] = nobs.prevFirst[k]
                 /\ \A e \in LiveEntries(k) :
                       e.connected_for_seconds > nobs.prevAt - nobs.prevFirst[k]
            ELSE /\ k \notin DOMAIN firstSeen
                 /\ LiveEntries(k) = {}

\* ---- C16
\* the connections of address ip the last cycle counted on node n
CountSeen(n, ip) == Cardinality({k \in bobs.seen : k[1] = n /\ k[2] = ip})

C16_WitnessDisabled ==
    /\ bobs.op = "cycle"
    /\ ~autoBlock
    /\ \E n \in Fleet, ip \in RemoteAddrs :
          /\ CountSeen(n, ip) >= PerIpThreshold
          /\ blocked[ip] = 0
          /\ bobs.alert[<<n, ip>>] = "persisted"

\* ---- C17
\* C17 as stated: after any sequence of block, unblock and auto-block
\* operations, also ones in which a rule command fails part-way, the blocklist
\* holds at most one BlockEntry per address and the packet filter at most one
\* drop rule for it per chain.
C17_AsStated ==
    \A ip \in RemoteAddrs :
        /\ blocked[ip] <= 1
        /\ \A c \in Chains : rules[c][ip] <= 1

\* ---- C18
\* C18: whether the cycle alerts on an address for node n, and runs the
\* auto-block logic for it because of node n, is decided by the address's
\* connection count on node n alone: it does so exactly when that count is at
\* or above the threshold, whatever the address's counts on the other nodes are.
C18_PerNodeCountDecides ==
    bobs.op = "cycle" =>
        /\ \A n \in Fleet, ip \in RemoteAddrs :
              (bobs.alert[<<n, ip>>] # "none") <=> (CountSeen(n, ip) >= PerIpThreshold)
        /\ \A ip \in RemoteAddrs :
              ip \in bobs.cmd \cup bobs.rej
              <=> /\ autoBlock
                  /\ bobs.was[ip] = 0
                  /\ \E n \in Fleet : CountSeen(n, ip) >= PerIpThreshold

\* an address below the threshold on each node whose counts add up to it
C18_Witness ==
    /\ bobs.op = "cycle"
    /\ autoBlock
    /\ \E ip \in RemoteAddrs :
          /\ \A n \in Fleet : CountSeen(n, ip) = PerIpThreshold - 1
          /\ \A n \in Fleet : bobs.alert[<<n, ip>>] = "none"
          /\ blocked[ip] = 0

\* an address at the threshold on one node and below it on the other
C18_WitnessOneNode ==
    /\ bobs.op = "cycle"
    /\ autoBlock
    /\ \E ip \in RemoteAddrs, n \in Fleet, m \in Fleet :
          /\ CountSeen(n, ip) = PerIpThreshold
          /\ CountSeen(m, ip) = PerIpThreshold - 1
          /\ bobs.alert[<<n, ip>>] = "persisted"
          /\ bobs.alert[<<m, ip>>] = "none"
          /\ ip \in bobs.cmd

\* ---- C19
\* C19 as stated: after a user-triggered unblock of an address the blocklist has
\* no BlockEntry for it and the packet filter no drop rule for it in any chain;
\* a monitor cycle removes no BlockEntry.
C19_AsStated ==
    \A ip \in RemoteAddrs :
        /\ (bobs.op = "unblock" /\ ip \in bobs.cmd)
              => (blocked[ip] = 0 /\ \A c \in Chains : rules[c][ip] = 0)
        /\ bobs.op = "cycle" => blocked[ip] >= bobs.was[ip]
\* ---- C20
\* C20: after a pruning step with cutoff = now - 30 days no StatsSnapshot and no
\* AlertEvent older than the cutoff is in the store, and every record that was
\* in the store with a timestamp at or after the cutoff is still there.
C20_PruneKeepsWindow ==
    pobs.acted =>
        /\ pobs.cutoff = now - RetentionDays * Day
        /\ \A r \in stats : r.timestamp >= pobs.cutoff
        /\ \A a \in DOMAIN alerts : a.created_at >= pobs.cutoff
        /\ \A r \in pobs.stats : r.timestamp >= pobs.cutoff => r \in stats
        /\ \A a \in DOMAIN pobs.alerts :
              a.created_at >= pobs.cutoff => CopiesIn(a, alerts) = CopiesIn(a, pobs.alerts)

\* a pruning step that found a snapshot and an alert older than the cutoff and
\* a snapshot and an alert exactly at it
C20_Witness ==
    /\ pobs.acted
    /\ \E r \in pobs.stats : r.timestamp < pobs.cutoff
    /\ \E r \in pobs.stats : r.timestamp = pobs.cutoff
    /\ \E a \in DOMAIN pobs.alerts : a.created_at < pobs.cutoff
    /\ \E a \in DOMAIN pobs.alerts : a.created_at = pobs.cutoff
\* ---- C21
\* a cycle's snapshot pass, and its pruning when it ran, are over
PassCompleted == lpc = "alerts"
\* at least 60 seconds passed since the last snapshot when the cycle began
SixtySecondsPassed == lobs.at - lobs.last >= 60
\* the snapshot rows the cycle persisted
PersistedRows == stats \ lobs.pre[1]
\* one row of the cycle for each node of ns
RowsOf(ns) == {[proxy_id |-> n, timestamp |-> lobs.at] : n \in ns}

\* C21 as stated: a cycle in which at least 60 seconds passed since the last
\* snapshot persists exactly one StatsSnapshot for each running node and none
\* for a node that is not running; any other cycle persists none.
C21_AsStated ==
    PassCompleted =>
        PersistedRows = IF SixtySecondsPassed
                        THEN RowsOf({n \in Fleet : cont[n] /\ running[n]})
                        ELSE {}

\* C21 amended: such a cycle persists one StatsSnapshot for each node that has a
\* container, whether its status is 'running' or not, unless the snapshot
\* commit fails, in which case it persists none; any other cycle persists none.
C21_SnapshotPerContainer ==
    /\ PassCompleted =>
          PersistedRows = IF SixtySecondsPassed
                          THEN RowsOf({n \in Fleet : cont[n]})
                          ELSE {}
    /\ (lpc = "sleep" /\ lobs.aborted = "snap") => stats = lobs.pre[1]
    /\ (lpc = "sleep" /\ lobs.aborted = "prune") =>
          PersistedRows = RowsOf({n \in Fleet : cont[n]})

\* a due cycle persisted a snapshot of a stopped node and of a running one
C21_Witness ==
    /\ PassCompleted
    /\ SixtySecondsPassed
    /\ \E n \in Fleet, m \in Fleet :
          /\ cont[n] /\ ~running[n] /\ [proxy_id |-> n, timestamp |-> lobs.at] \in PersistedRows
          /\ running[m] /\ [proxy_id |-> m, timestamp |-> lobs.at] \in PersistedRows

\* a cycle less than 60 seconds after the last snapshot persisted none
C21_WitnessNotDue ==
    /\ PassCompleted
    /\ ~SixtySecondsPassed
    /\ PersistedRows = {}
    /\ \E n \in Fleet : running[n]

\* ---- C22
\* the cutoff of the cycle: 30 days before it began
CycleCutoff == lobs.at - RetentionDays * Day

\* C22 as stated: every cycle prunes, whether or not it writes snapshots: after
\* a cycle no snapshot and no alert older than the retention window is left.
C22_AsStated ==
    PassCompleted =>
        /\ \A r \in stats : r.timestamp >= CycleCutoff
        /\ \A a \in DOMAIN alerts : a.created_at >= CycleCutoff

\* C22 amended: a cycle prunes exactly when it writes snapshots: after a cycle
\* that wrote snapshots nothing older than the window is left and nothing newer
\* was deleted; a cycle that wrote none deleted nothing.
C22_PruneOnlyWithSnapshots ==
    PassCompleted =>
        IF SixtySecondsPassed
        THEN /\ \A r \in stats : r.timestamp >= CycleCutoff
             /\ \A a \in DOMAIN alerts : a.created_at >= CycleCutoff
             /\ \A r \in lobs.pre[1] : r.timestamp >= CycleCutoff => r \in stats
             /\ \A a \in DOMAIN lobs.pre[2] :
                   a.created_at >= CycleCutoff => CopiesIn(a, alerts) = CopiesIn(a, lobs.pre[2])
        ELSE /\ stats = lobs.pre[1]
             /\ alerts = lobs.pre[2]

\* a cycle that wrote no snapshot left a snapshot older than the window in place
C22_Witness ==
    /\ PassCompleted
    /\ ~SixtySecondsPassed
    /\ \E r \in stats : r.timestamp < CycleCutoff

\* a cycle that wrote snapshots deleted an old snapshot and an old alert
C22_WitnessPruned ==
    /\ PassCompleted
    /\ SixtySecondsPassed
    /\ \E r \in lobs.pre[1] : r.timestamp < CycleCutoff
    /\ \E a \in DOMAIN lobs.pre[2] : a.created_at < CycleCutoff

\* ---- C23
\* the snapshot pass of a due cycle is over, completed or left by an exception
PassEnded == lobs.due /\ (lpc = "alerts" \/ (lpc = "sleep" /\ lobs.aborted \in {"snap", "prune"}))

\* C23 as stated: after a cycle, also one in which a store operation fails,
\* either all of its snapshot inserts and retention deletes are persisted or
\* none of them is.
C23_AsStated ==
    PassEnded =>
        \/ /\ stats = lobs.pre[1]
           /\ alerts = lobs.pre[2]
        \/ /\ stats = {r \in lobs.pre[1] \cup RowsOf({n \in Fleet : cont[n]}) :
                         r.timestamp >= CycleCutoff}
           /\ \A a \in DOMAIN alerts : a.created_at >= CycleCutoff
           /\ \A a \in DOMAIN lobs.pre[2] :
                 a.created_at >= CycleCutoff => CopiesIn(a, alerts) = CopiesIn(a, lobs.pre[2])

\* ---- C24
\* a cycle ran to its end without an exception leaving it
CycleCompleted == lpc = "sleep" /\ lobs.aborted = "none"

\* C24: when processing one node raises (its reconciliation, its stop command
\* or the store write of its alert), the same cycle still reconciles every
\* other node and runs the limit check and the threshold pass over all nodes.
C24_OtherNodesProcessed ==
    CycleCompleted =>
        /\ lobs.rec = {n \in Fleet : cont[n]} \ lobs.recFail
        /\ lobs.chkd = {n \in Fleet : cont[n]}
        /\ lobs.alerted = {n \in Fleet : cont[n]}

\* the first node's reconciliation raised and a stop command raised; the second
\* node was reconciled
C24_Witness ==
    /\ CycleCompleted
    /\ lobs.recFail = {1}
    /\ 2 \in lobs.rec
    /\ lobs.stopFail # {}

\* ---- C25
\* C25: no exception raised inside a cycle leaves the loop: after a cycle that
\* an exception left the loop sleeps, wakes up and begins another cycle.
C25_LoopGoesOn ==
    /\ [](lpc # "dead")
    /\ (lpc = "sleep" /\ lobs.aborted # "none") ~> (lpc = "top")
    /\ (lpc = "top") ~> (lpc \in {"nodes", "sleep"})

\* a cycle began after one that an exception left
C25_Witness == lpc = "nodes" /\ lobs.prevAborted

\* ---- C28
\* C28 as stated: once the stop signal is set the loop finishes the cycle in
\* progress and begins no further cycle.
C28_AsStated == ~lobs.afterStop
\* ---- C30
\* C30: when forwarding an alert to the notification channel fails, the call of
\* _maybe_emit_alert returns and the AlertEvent it persisted stays in the store.
C30_ForwardFailureKeepsAlert ==
    \A t \in Threads :
        thr[t].fwd = "failed"
        => /\ thr[t].pc = "idle"
           /\ thr[t].result = "persisted"
           /\ PersistedOfKey(thr[t].key)
                 = Cardinality({u \in Threads : thr[u].key = thr[t].key
                                                /\ thr[u].result = "persisted"})

\* a call persisted its alert and failed to forward it; another call forwarded its own
C30_Witness ==
    \E t \in Threads, u \in Threads :
        /\ thr[t].fwd = "failed"
        /\ thr[u].fwd = "sent"
        /\ PersistedOfKey(thr[t].key) >= 1
\* ---- C26
\* C26 as stated: request handlers only read the live-connection map and its
\* records, so two reads of a node's live connections with no monitor cycle in
\* between return the same records.
C26_AsStated == \A r \in Readers : ~robs[r].changed

\* ---- C27
\* thread t waits for a lock that thread u holds
WaitsFor(t, u) ==
    /\ t # u
    /\ \E pos \in (IF t = 0 THEN {MonNext(tpc[0])} ELSE {"conn", "top_ips"}) :
          \E l \in HeldAt(pos) \ HeldAt(tpc[t]) : l \in HeldAt(tpc[u])

\* C27: every thread holds at most one of the four locks at any time, and no
\* two threads wait for each other's locks.
C27_OneLockAtATime ==
    /\ \A t \in LockThreads : Cardinality(HeldAt(tpc[t])) <= 1
    /\ \A t \in LockThreads, l \in {"live", "rate", "alerts", "geo"} :
          l \in HeldAt(tpc[t]) => \A u \in LockThreads \ {t} : l \notin HeldAt(tpc[u])
    /\ \A t \in LockThreads, u \in LockThreads : ~(WaitsFor(t, u) /\ WaitsFor(u, t))

\* the monitor holds the geo-cache lock while a request thread holds the
\* connection-map lock and the other request thread waits for it
C27_Witness ==
    /\ "geo" \in HeldAt(tpc[0])
    /\ \E r \in Readers, q \in Readers : "live" \in HeldAt(tpc[r]) /\ WaitsFor(q, r)
\* ---- C29
\* C29 as stated: each cycle compares against the thresholds persisted at that
\* cycle (300 and 20 when none is persisted): the cycle after a change raises
\* the total alert for exactly the nodes whose active_connections is at or
\* above the stored total threshold, and the per-address alert for exactly the
\* (node, address) pairs whose count is at or above the stored per-address
\* threshold (each call subject to the cooldown of its key).
C29_AsStated ==
    tobs.acted =>
       /\ settings.conn[1] \in {"none", "int"} =>
             \A n \in Fleet :
                (TotalKey(n) \in tobs.called) <=>
                   (load[n].active >= (IF settings.conn = NoRow THEN DefaultConnThreshold
                                       ELSE settings.conn[2]))
       /\ settings.ip[1] \in {"none", "int"} =>
             \A n \in Fleet :
                (IpKey(n, "a") \in tobs.called) <=>
                   (load[n].ip >= (IF settings.ip = NoRow THEN DefaultIpConnThreshold
                                   ELSE settings.ip[2]))
\* ---- C31
\* C31 as stated: when the kernel connection table cannot be queried in a
\* cycle, the first-seen records and the live-connection snapshot of the
\* previous cycle are retained.
C31_AsStated ==
    (nobs.acted /\ ~nobs.queried) =>
        /\ firstSeen = nobs.prevFirst
        /\ nobs.keptAll
\* ---- C32
\* C32 as stated: when in a cycle the packet filter gives no non-zero total for
\* a node and the container runtime reports no network counters for it, the
\* node's upload and download keep their previous values.
C32_AsStated ==
    [][\A n \in Nodes :
          (cobs'[n].acted /\ ~cobs'[n].iptAns /\ cobs'[n].rtAns /\ dock[n] = NoTraffic)
          => /\ proxy'[n].upload = proxy[n].upload
             /\ proxy'[n].download = proxy[n].download]_vars

\* ---- C33
\* C33: the counter sources are tried in fixed order and the first success
\* wins: when the packet filter has a non-zero total for the node, the written
\* pair is the halved packet-filter totals, whether or not the container
\* runtime would answer; otherwise a written pair is the halved container
\* runtime counters.
C33_FirstSourceWins ==
    \A n \in Nodes :
        Reconciled(n) =>
            IF cobs[n].iptAns
            THEN <<proxy[n].upload, proxy[n].download>>
                    = <<ipt[n].tx \div 2, ipt[n].rx \div 2>>
            ELSE /\ cobs[n].rtAns
                 /\ <<proxy[n].upload, proxy[n].download>>
                       = <<dock[n].tx \div 2, dock[n].rx \div 2>>

\* the packet filter answered, the container runtime would have answered
\* with larger counters, and the packet filter's pair was written
C33_Witness ==
    \E n \in Nodes :
        /\ Reconciled(n)
        /\ cobs[n].iptAns
        /\ cobs[n].rtAns
        /\ dock[n].tx \div 2 > ipt[n].tx \div 2
        /\ proxy[n].upload = ipt[n].tx \div 2

\* the packet filter's total was zero and the container runtime's pair was written
C33_WitnessFallback ==
    \E n \in Nodes :
        /\ Reconciled(n)
        /\ ~cobs[n].iptAns
        /\ ipt[n] = NoTraffic
        /\ proxy[n].download = dock[n].rx \div 2
        /\ proxy[n].download > 0
\* ---- C34
\* C34: _lookup_country returns 'Local' for every private, loopback or
\* link-local address without running a lookup or touching the cache; for any
\* other address a label cached less than 24 hours ago is returned without a
\* new lookup; a failed lookup yields 'Unknown' and no exception leaves the call.
C34_LocalCachedOrUnknown ==
    gobs.acted =>
       /\ gobs.result # "raise"
       /\ gobs.ip[1] \in {"private", "loopback", "link_local"}
            => /\ gobs.result = "Local"
               /\ ~gobs.looked
               /\ geoCache = gobs.cache
               /\ geoCacheExpiry = gobs.expiry
       /\ (/\ gobs.ip[1] \in {"public", "invalid"}
           /\ gobs.ip \in DOMAIN gobs.cache
           /\ gobs.at - gobs.was[gobs.ip] < 24 * 60 * 60)
            => /\ gobs.result = gobs.cache[gobs.ip]
               /\ ~gobs.looked
       /\ gobs.failed => gobs.result = "Unknown"

\* a label cached one second short of 24 hours ago is returned, although the
\* cache holds another address as well
C34_Witness ==
    /\ gobs.acted
    /\ gobs.ip[1] = "public"
    /\ gobs.ip \in DOMAIN gobs.cache
    /\ gobs.at - gobs.was[gobs.ip] = GeoTtl - 1
    /\ gobs.result = "IR"
    /\ Cardinality(DOMAIN gobs.cache) > 1

\* a link-local address is labelled while the cache is not empty
C34_WitnessLocal ==
    /\ gobs.acted
    /\ gobs.ip[1] = "link_local"
    /\ gobs.result = "Local"
    /\ gobs.cache # << >>

\* a lookup that raised gave 'Unknown'
C34_WitnessFailed ==
    /\ gobs.acted
    /\ gobs.failed
    /\ gobs.looked
    /\ gobs.result = "Unknown"
\* ---- C35
\* C35 as stated: whenever no block or unblock operation is in progress, every
\* BlockEntry of the blocklist has its drop rule in the packet filter, in the
\* INPUT and in the FORWARD chain, also after an operation in which a rule
\* command failed.
C35_AsStated ==
    \A ip \in RemoteAddrs :
        blocked[ip] > 0 => (rules["INPUT"][ip] > 0 /\ rules["FORWARD"][ip] > 0)
\* ---- C36
\* the quota baseline of a row
Baseline(p) == <<p.quota_base_upload, p.quota_base_download>>

\* C36: the monitor loop writes a node's quota baseline only in a cycle where
\* the quota window is started and both baseline counters are 0, and then sets
\* it to that cycle's reconciled counters; once either baseline counter is
\* non-zero, no cycle of the loop changes the baseline.
C36_BaselineWrittenOnce ==
    [][(pc = "idle" /\ pc' = "limits") =>
         \A n \in Nodes :
            /\ Baseline(proxy'[n]) # Baseline(proxy[n])
                 => /\ proxy[n].quota_start
                    /\ Baseline(proxy[n]) = <<0, 0>>
            /\ (rec'[n].ok /\ proxy[n].quota_start /\ Baseline(proxy[n]) = <<0, 0>>)
                 => Baseline(proxy'[n]) = <<proxy'[n].upload, proxy'[n].download>>
            /\ Baseline(proxy[n]) # <<0, 0>>
                 => Baseline(proxy'[n]) = Baseline(proxy[n])]_vars

\* a cycle has just kept a baseline with one counter 0 and one not, under
\* counters that differ from it
C36_Witness ==
    \E n \in Nodes :
        /\ pc = "limits"
        /\ rec[n].ok
        /\ ~rec[n].base0
        /\ proxy[n].quota_start
        /\ proxy[n].quota_base_upload = 0
        /\ proxy[n].quota_base_download > 0
        /\ proxy[n].upload > 0

\* a cycle has just written the baseline of a started window
C36_WitnessWritten ==
    \E n \in Nodes :
        /\ pc = "limits"
        /\ rec[n].ok
        /\ rec[n].base0
        /\ Baseline(proxy[n]) = <<proxy[n].upload, proxy[n].download>>
        /\ Baseline(proxy[n]) # <<0, 0>>
\* ---- C37
\* C37 as stated: a quota reset sets the baseline to the current counters and
\* leaves upload, download, status and quota_bytes unchanged; immediately after
\* it the usage is 0, and the usage computed in later cycles counts only (and
\* all of) the traffic reconciled after the reset.
C37_AsStated ==
    \A n \in Nodes :
        (/\ qobs[n] # << >>
         /\ proxy[n].upload >= qobs[n][1]
         /\ proxy[n].download >= qobs[n][2])
        => _quota_usage_bytes(proxy[n])
              = (proxy[n].upload - qobs[n][1]) + (proxy[n].download - qobs[n][2])
\* ---- C38
\* the calls before call i that were for the same key and were emitted
EmittedBefore(i) ==
    {j \in 1..(i - 1) : eobs[j].key = eobs[i].key /\ eobs[j].out # "suppressed"}

\* the last of them
LastEmittedBefore(i) == CHOOSE j \in EmittedBefore(i) : \A k \in EmittedBefore(i) : k <= j

\* C38: a call of _maybe_emit_alert suppressed by the cooldown leaves the
\* key's last-emitted timestamp unchanged, so the window is measured from the
\* last emitted alert and not from the last attempt: a call is suppressed
\* exactly when the last emitted call for its key was less than the cooldown
\* before it, and the recorded timestamp of a key is the time of its last
\* emitted call.
C38_WindowFromLastEmitted ==
    /\ \A i \in 1..Len(eobs) :
          (eobs[i].out = "suppressed")
          <=> (/\ EmittedBefore(i) # {}
               /\ eobs[i].at - eobs[LastEmittedBefore(i)].at < DefaultCooldown)
    /\ \A n \in Fleet :
          LET mine == {j \in 1..Len(eobs) :
                          eobs[j].key = TotalKey(n) /\ eobs[j].out # "suppressed"}
          IN IF mine = {} THEN TotalKey(n) \notin DOMAIN lastAlert
             ELSE /\ TotalKey(n) \in DOMAIN lastAlert
                  /\ \E j \in mine : /\ \A k \in mine : k <= j
                                     /\ lastAlert[TotalKey(n)] = eobs[j].at

\* calls for one key at 0, at t1 < cooldown and at t2 = cooldown: emitted,
\* suppressed, emitted
C38_Witness ==
    \E i \in 1..Len(eobs), j \in 1..Len(eobs), k \in 1..Len(eobs) :
        /\ i < j /\ j < k
        /\ eobs[i].key = eobs[j].key /\ eobs[j].key = eobs[k].key
        /\ eobs[i].at = 0 /\ eobs[i].out # "suppressed"
        /\ eobs[j].at > 0 /\ eobs[j].at < DefaultCooldown /\ eobs[j].out = "suppressed"
        /\ eobs[k].at = DefaultCooldown /\ eobs[k].out # "suppressed"
\* ---- C39
\* C39: after the tracking step of every cycle the keys of the first-seen map
\* are the connections observed in that cycle, the live snapshot of each node
\* holds exactly one entry per observed connection of the node, and the
\* per-(node, address) count used for alerting is the number of snapshot
\* entries of the node with that address.
C39_TrackerMatchesObserved ==
    nobs.acted =>
       /\ DOMAIN firstSeen = nobs.seen
       /\ \A n \in Fleet :
             /\ \A k \in {x \in nobs.seen : x[1] = n} : Cardinality(LiveEntries(k)) = 1
             /\ Cardinality(live[n]) = Cardinality({x \in nobs.seen : x[1] = n})
             /\ \A ip \in RemoteAddrs :
                   IpCount(nobs.seen, n, ip)
                      = Cardinality({e \in live[n] : e.ip = ip})

\* a cycle that observed two connections of one address on a node, one of
\* them known and none on the other node, after a connection had gone
C39_Witness ==
    /\ nobs.acted
    /\ \E n \in Fleet, ip \in RemoteAddrs :
          /\ IpCount(nobs.seen, n, ip) = 2
          /\ \E m \in Fleet : m # n /\ live[m] = {}
    /\ \E k \in DOMAIN nobs.prevFirst : k \notin nobs.seen
    /\ \E k \in DOMAIN nobs.prevFirst : k \in nobs.seen
\* ---- C40
\* C40: a request thread that reads the live-connection map under the
\* connection lock never reads it between the monitor's clear and refill: no
\* read is made while the map is partly replaced.
C40_NoTornRead ==
    /\ \A r \in Readers : ~robs[r].torn
    /\ \A r \in Readers : tpc[r] \in {"conn", "top_ips"} => tpc[0] \notin {"live_clear", "live"}

\* a request thread is reading a non-empty snapshot while the monitor, with a
\* new snapshot built, waits for the lock to replace it
C40_Witness ==
    \E r \in Readers :
        /\ tpc[r] = "conn"
        /\ robs[r].res # << >>
        /\ robs[r].res[1] # {}
        /\ tpc[0] = "built"
        /\ WaitsFor(0, r)
        /\ NewLive # live
====
